---- MODULE Spec2Model ----
(***************************************************************************)
(* Model of the kernel log engine (src/core/engine.py): the bounded event  *)
(* buffer, the consumption loop task(s) with their suspension points, the  *)
(* subscriber fan-out, pause/resume and stop/shutdown.                     *)
(*                                                                         *)
(* Events are objects: `heap` maps an object identity (1..Len(heap)) to    *)
(* the mutable fields the engine touches; the buffer and the loop hold     *)
(* identities, so a continuation merge is seen through every reference.    *)
(* Strings are sequences of tokens; NL is the newline the merge inserts.   *)
(***************************************************************************)
EXTENDS Integers, Sequences, FiniteSets, TLC

\* ---------------------------------------------------------------- bounds
MaxBufferSize == 2
MaxEvents == 3
MaxSubs == 2
MaxTasks == 2
MaxSnapshot == 2
MaxWords == 2
MaxOutput == 3
MaxToolChanges == 1

MaxInstances == 2
MaxCalls == 2
MaxLogs == 3
MaxParts == 2

Callbacks == {"cbA", "cbB"}
PluginNames == {"pa", "pb"}
Calls == 1..MaxCalls
Tasks == 1..MaxTasks
Sources == {"dmesg", "journal"}

VARIABLES
    buffer_size,      \* KernelLogEngine.buffer_size
    buffer,           \* KernelLogEngine.buffer: deque(maxlen=buffer_size) of event identities
    source,           \* KernelLogEngine.source: "None" or the adapter selected
    running,          \* KernelLogEngine.running
    paused,           \* KernelLogEngine.paused
    event_callbacks,  \* KernelLogEngine.event_callbacks (a list: duplicates allowed)
    stream_task,      \* KernelLogEngine._stream_task (0 = None)
    heap,             \* the KernelEvent objects created so far
    pc,               \* per task: where _run_stream is suspended ("done" = no such task)
    cancel,           \* per task: Task.cancel() requested, CancelledError not yet thrown
    cur,              \* per task: the event held during the pause-idle wait (0 = none)
    obj,              \* per task: the object being fanned out (event or merged last)
    idx,              \* per task: position of the list iterator of the fan-out loop
    stop_pc,          \* the in-flight stop_streaming()/shutdown() call: "idle" | "awaiting"
    stop_kind,        \* "stop" | "shutdown"
    stop_task,        \* the task that call awaits
    \* ---- history variables (not program state)
    pending,          \* per task: callbacks registered when the event was accepted, not
                      \*   (un)subscribed since, and not yet invoked for it
    unsub,            \* callbacks unsubscribed while running and not subscribed since
    banned,           \* per task: unsub as it was when the event was accepted, minus re-subscribed
    outcome,          \* per task: how the latest callback of this fan-out ended
    how,              \* per task: how the event being fanned out entered the buffer
    cancelled_at,     \* the suspension point where the latest CancelledError was thrown
    paused_pulls,     \* per task: events pulled since paused /\ running last became true
    start_overlap,    \* start_streaming() was called while the in-flight stop call was awaiting
    quiet,            \* "no" | "stopped" | "shutdown": last stop/shutdown returned, no start/load call since
    ended,            \* how the latest consumption loop to end ended ("none" since the latest start)
    \* ---- the adapters and their external tool (src/core/sources.py)
    child,            \* per task: the child process of its stream_live() generator
    env,              \* the external tools as the next call will find them
    snap,             \* outcome of the latest get_snapshot() call
    live,             \* per task: the stream_live() its loop consumes, and how it ended
    \* ---- the parser (src/core/parser.py)
    line,             \* the line handed to parse_dmesg_line
    parsed,           \* what parse_dmesg_line delivered for it
    \* ---- what callers observe
    returned,         \* the latest call observed: operation, arguments, value or error
    \* ---- KernelLogReader (src/core/kernel_log_reader.py)
    last_buffer_index, \* KernelLogReader._last_buffer_index
    entered,          \* history: the events that entered the buffer since the latest get_new_logs()
    \* ---- PluginManager (src/plugins/manager.py)
    plugins,          \* PluginManager.plugins: per name the registered instance (0 = no entry)
    enabled_plugins,  \* PluginManager.enabled_plugins
    context_impl,     \* PluginManager._context_impl is set
    insts,            \* the plugin instances created so far: name, hooks invoked on it
    mcalls,           \* the PluginManager calls in flight or just returned, per caller
    \* ---- EventStreamWidget (src/ui/event_stream.py)
    logs,             \* EventStreamWidget.logs
    displayed_logs,   \* EventStreamWidget.displayed_logs
    rows,             \* EventStreamWidget.table.rowCount()
    current_filters   \* EventStreamWidget.current_filters

vars == <<buffer_size, buffer, source, running, paused, event_callbacks, stream_task,
          heap, pc, cancel, cur, obj, idx, stop_pc, stop_kind, stop_task,
          pending, unsub, banned, outcome, how, cancelled_at, paused_pulls, start_overlap, quiet,
          ended, child, env, snap, live, line, parsed, returned,
          last_buffer_index, entered, plugins, enabled_plugins, context_impl, insts, mcalls,
          logs, displayed_logs, rows, current_filters>>

engine == <<buffer_size, buffer, source, running, paused, event_callbacks, stream_task>>
loops == <<pc, cancel, cur, obj, idx>>
stopcall == <<stop_pc, stop_kind, stop_task>>
fanout == <<pending, banned, outcome, how>>
history == <<pending, unsub, banned, outcome, how, cancelled_at, paused_pulls, start_overlap, quiet>>
\* What the engine's own operations never touch: the tools, the adapter and
\* parser calls made apart from it, and what a caller was seen to get.
reader == <<last_buffer_index, entered>>
manager == <<plugins, enabled_plugins, context_impl, insts, mcalls>>
widget == <<logs, displayed_logs, rows, current_filters>>
\* The components built on top of the engine.
beyond == <<reader, manager, widget>>
outside == <<env, snap, live, line, parsed, returned, beyond>>

\* ------------------------------------------------------------ pure parts
NL == <<"nl", 0>>

\* A freshly parsed event number k: one-line message and raw, distinct per event,
\* and the other fields of KernelEvent (event.py 19-31) with values of its own.
\* event_id is str(uuid4()) (event.py 28): a value no other event has.
NewEvent(k, cont) ==
    [timestamp_monotonic |-> <<"monotonic", k>>,
     timestamp_realtime |-> <<"realtime", k>>,
     severity |-> <<"severity", k>>,
     subsystem |-> <<"subsystem", k>>,
     message |-> << <<"msg", k>> >>,
     raw |-> << <<"raw", k>> >>,
     source |-> <<"source", k>>,
     event_id |-> <<"uuid", k>>,
     cpu |-> <<"cpu", k>>,
     pid |-> <<"pid", k>>,
     annotations |-> IF cont THEN {"continuation"} ELSE {}]

Range(s) == {s[i] : i \in 1..Len(s)}

\* deque(maxlen=n).append(x): the oldest entry is discarded when full.
DequeAppendNoEvict(buf, x, n) == Append(buf, x)

DequeAppendDropNew(buf, x, n) == IF Len(buf) >= n THEN buf ELSE Append(buf, x)

DequeAppend(buf, x, n) ==
    LET s == Append(buf, x)
    IN  IF Len(s) > n THEN SubSeq(s, Len(s) - n + 1, Len(s)) ELSE s

\* deque.extend(xs): append one by one.
RECURSIVE DequeExtend(_, _, _)
DequeExtend(buf, xs, n) ==
    IF xs = <<>> THEN buf
    ELSE DequeExtend(DequeAppend(buf, Head(xs), n), Tail(xs), n)

\* bool(event.annotations.get('continuation'))
IsContinuation(ev) == "continuation" \in ev.annotations

\* The merge of a continuation event into the last buffered event.
MergeEventNoNewline(last, ev) ==
    [last EXCEPT !.message = @ \o ev.message,
                 !.raw = @ \o ev.raw,
                 !.annotations = @ \cup ev.annotations]

MergeEventTakesId(last, ev) ==
    [last EXCEPT !.message = @ \o <<NL>> \o ev.message,
                 !.raw = @ \o <<NL>> \o ev.raw,
                 !.annotations = @ \cup ev.annotations,
                 !.event_id = ev.event_id]

\* Line 121, the first assignment of the merge.
MergeMessage(last, ev) == [last EXCEPT !.message = @ \o <<NL>> \o ev.message]

\* Lines 122-124, the rest of it: annotations is a dict whose only key the
\* parser sets is 'continuation' (parser.py 192-194), so update() is a union.
MergeRestTakesSeverity(last, ev) ==
    [last EXCEPT !.raw = @ \o <<NL>> \o ev.raw,
                 !.annotations = @ \cup ev.annotations,
                 !.severity = ev.severity]

MergeRest(last, ev) ==
    [last EXCEPT !.raw = @ \o <<NL>> \o ev.raw,
                 !.annotations = @ \cup ev.annotations]

MergeEvent(last, ev) == MergeRest(MergeMessage(last, ev), ev)

\* list.remove(x): the first occurrence only.
FirstIndex(s, x) == CHOOSE i \in 1..Len(s) : s[i] = x /\ \A j \in 1..(i - 1) : s[j] # x

ListRemove(s, x) ==
    IF x \in Range(s)
    THEN LET i == FirstIndex(s, x) IN SubSeq(s, 1, i - 1) \o SubSeq(s, i + 1, Len(s))
    ELSE s

Alive(t) == pc[t] # "done"

\* The `finally` of stream_live() (sources.py 91-97, 159-165), run when the
\* generator returns, raises, or has an exception thrown in at its await:
\* process.terminate(), a wait of at most 2 s, then process.kill().
GeneratorExit(c) == IF c = "running" THEN "terminated" ELSE c

\* A task identity start_streaming() can take: a finished task nobody awaits.
Free(t) == pc[t] = "done" /\ ~(stop_pc = "awaiting" /\ stop_task = t)

\* ------------------------------------------------------------------ Init
\* Values of the variables no call has set yet.
NoCall == [op |-> "none"]
NoLine == [form |-> "none"]
NoCaller == [op |-> "none", pc |-> "done", name |-> "", inst |-> 0, case |-> "none",
             result |-> "none", start |-> {}, visited |-> {}, invoked |-> {}, raised |-> {},
             stable |-> {}, todo |-> {}, began |-> {}]
NoTools == [dmesg |-> "ok", journal |-> "ok", output |-> <<>>, changes |-> 0]

\* The filters of the event stream widget: a dict with its four criteria (a
\* search pattern is a sequence of words and blanks), the dict {}, or None.
NoCriteria ==
    [is |-> "dict", severities |-> {}, subsystems |-> {}, sources |-> {}, search_pattern |-> <<>>]
EmptyDict == [NoCriteria EXCEPT !.is = "empty"]
NoFilters == [NoCriteria EXCEPT !.is = "None"]

\* The engine as constructed (__init__), with `source` as given.
Constructed(src) ==
    /\ buffer_size \in 1..MaxBufferSize
    /\ buffer = <<>>
    /\ source = src
    /\ running = FALSE
    /\ paused = FALSE
    /\ event_callbacks = <<>>
    /\ stream_task = 0
    /\ heap = <<>>
    /\ pc = [t \in Tasks |-> "done"]
    /\ cancel = [t \in Tasks |-> FALSE]
    /\ cur = [t \in Tasks |-> 0]
    /\ obj = [t \in Tasks |-> 0]
    /\ idx = [t \in Tasks |-> 0]
    /\ stop_pc = "idle"
    /\ ended = "none"
    /\ child = [t \in Tasks |-> "none"]
    /\ env = NoTools
    /\ snap = NoCall
    /\ live = [t \in Tasks |-> NoCall]
    /\ line = NoLine
    /\ parsed = NoCall
    /\ returned = NoCall
    /\ last_buffer_index = 0
    /\ entered = <<>>
    /\ plugins = [n \in PluginNames |-> 0]
    /\ enabled_plugins = {}
    /\ context_impl = FALSE
    /\ insts = <<>>
    /\ mcalls = [c \in Calls |-> NoCaller]
    /\ logs = <<>>
    /\ displayed_logs = <<>>
    /\ rows = 0
    /\ current_filters = NoFilters
    /\ stop_kind = "stop"
    /\ stop_task = 0
    /\ pending = [t \in Tasks |-> {}]
    /\ unsub = {}
    /\ banned = [t \in Tasks |-> {}]
    /\ outcome = [t \in Tasks |-> "none"]
    /\ how = [t \in Tasks |-> "none"]
    /\ cancelled_at = "none"
    /\ paused_pulls = [t \in Tasks |-> 0]
    /\ start_overlap = FALSE
    /\ quiet = "no"

\* After construction.
Init == Constructed("None")

\* After construction and an initialize() that found dmesg.
InitReady == Constructed("dmesg")

\* A plugin instance whose on_load returned True.
LoadedInstance(n) == [name |-> n, on_load |-> "true", unloads |-> 0]

\* After construction, set_context(), and a load_plugin() and enable_plugin()
\* of both plugins: "pa" is instance 1, "pb" instance 2.
InitPlugins ==
    /\ buffer_size \in 1..MaxBufferSize
    /\ buffer = <<>> /\ source = "None" /\ running = FALSE /\ paused = FALSE
    /\ event_callbacks = <<>> /\ stream_task = 0 /\ heap = <<>>
    /\ pc = [t \in Tasks |-> "done"] /\ cancel = [t \in Tasks |-> FALSE]
    /\ cur = [t \in Tasks |-> 0] /\ obj = [t \in Tasks |-> 0] /\ idx = [t \in Tasks |-> 0]
    /\ stop_pc = "idle" /\ ended = "none" /\ child = [t \in Tasks |-> "none"]
    /\ env = NoTools /\ snap = NoCall /\ live = [t \in Tasks |-> NoCall]
    /\ line = NoLine /\ parsed = NoCall /\ returned = NoCall
    /\ last_buffer_index = 0 /\ entered = <<>>
    /\ plugins = [n \in PluginNames |-> IF n = "pa" THEN 1 ELSE 2]
    /\ enabled_plugins = PluginNames
    /\ context_impl = TRUE
    /\ insts = <<LoadedInstance("pa"), LoadedInstance("pb")>>
    /\ mcalls = [c \in Calls |-> NoCaller]
    /\ logs = <<>> /\ displayed_logs = <<>> /\ rows = 0 /\ current_filters = NoFilters
    /\ stop_kind = "stop" /\ stop_task = 0
    /\ pending = [t \in Tasks |-> {}] /\ unsub = {} /\ banned = [t \in Tasks |-> {}]
    /\ outcome = [t \in Tasks |-> "none"] /\ how = [t \in Tasks |-> "none"]
    /\ cancelled_at = "none" /\ paused_pulls = [t \in Tasks |-> 0]
    /\ start_overlap = FALSE /\ quiet = "no"

\* ------------------------------------------------------- engine operations
\* initialize(): dmesg preferred, journalctl as fallback; False leaves source as it was.
SelectSourceJournalFirst(avail) ==
    IF "journal" \in avail THEN "journal"
    ELSE IF "dmesg" \in avail THEN "dmesg"
    ELSE source

SelectSource(avail) ==
    IF "dmesg" \in avail THEN "dmesg"
    ELSE IF "journal" \in avail THEN "journal"
    ELSE source

\* The value initialize() returns (lines 45-59).
InitializeReturns(avail) ==
    IF avail = {} THEN FALSE
    ELSE IF "dmesg" \in avail THEN TRUE
    ELSE IF "journal" \in avail THEN TRUE
    ELSE FALSE

Selected(avail) ==
    /\ source' = SelectSource(avail)
    /\ UNCHANGED <<buffer_size, buffer, running, paused, event_callbacks, stream_task,
                   heap, loops, stopcall, history, ended, child>>

Initialize(avail) == Selected(avail) /\ UNCHANGED outside

\* load_snapshot(): the adapter's events are created, then buffer.extend(events).
\* The operation changes no engine state before its await, so it is one step,
\* taken when get_snapshot() has returned n events.
SnapshotIds(n) == [i \in 1..n |-> Len(heap) + i]

LoadedUnbuffered(n) ==
    /\ source # "None"
    /\ Len(heap) + n <= MaxEvents
    /\ heap' = heap \o [i \in 1..n |-> NewEvent(Len(heap) + i, FALSE)]
    /\ quiet' = IF quiet = "shutdown" THEN "stopped" ELSE quiet
    /\ UNCHANGED <<cancelled_at, buffer_size, buffer, source, running, paused, event_callbacks,
                   stream_task, loops, stopcall, fanout, unsub, paused_pulls, start_overlap,
                   ended, child>>

Loaded(n) ==
    /\ source # "None"
    /\ Len(heap) + n <= MaxEvents
    /\ heap' = heap \o [i \in 1..n |-> NewEvent(Len(heap) + i, FALSE)]
    /\ buffer' = DequeExtend(buffer, SnapshotIds(n), buffer_size)
    /\ quiet' = IF quiet = "shutdown" THEN "stopped" ELSE quiet
    /\ UNCHANGED <<cancelled_at, buffer_size, source, running, paused, event_callbacks, stream_task,
                   loops, stopcall, fanout, unsub, paused_pulls, start_overlap, ended, child>>

LoadSnapshot(n) == Loaded(n) /\ UNCHANGED outside

\* start_streaming(): no-op while running; error without a source; else a new task.
NewTask == CHOOSE t \in Tasks : Free(t) /\ \A u \in Tasks : Free(u) => t <= u

\* Lines 84-85: running = True and the task of _run_stream() is created.
Launch ==
    /\ \E t \in Tasks : Free(t)
    /\ running' = TRUE
    /\ stream_task' = NewTask
    /\ pc' = [pc EXCEPT ![NewTask] = "next"]
    /\ start_overlap' = (stop_pc = "awaiting")
    /\ quiet' = "no"
    /\ cancelled_at' = "none"
    /\ ended' = "none"
    /\ UNCHANGED <<buffer_size, buffer, source, paused, event_callbacks, heap, cancel, cur,
                   obj, idx, stopcall, fanout, unsub, paused_pulls>>

StartStreaming ==
    IF running \/ source = "None"
    THEN UNCHANGED vars
    ELSE /\ Launch
         /\ child' = [child EXCEPT ![NewTask] = "running"]
         /\ UNCHANGED outside

\* stop_streaming() up to its await: running = False, cancel the task, await it.
\* Awaiting a finished task (or having none) does not suspend: the call returns
\* in the same step, and shutdown() goes on to flush_buffer().
MustAwait == stream_task # 0 /\ Alive(stream_task)

\* What the call leaves in the buffer: shutdown() goes on to flush_buffer().
AfterStop(kind, buf) == IF kind = "shutdown" THEN <<>> ELSE buf

StopStreaming(kind) ==
    /\ stop_pc = "idle"
    /\ running' = FALSE
    /\ paused_pulls' = [t \in Tasks |-> 0]
    /\ IF MustAwait
       THEN /\ cancel' = [cancel EXCEPT ![stream_task] = TRUE]
            /\ stop_pc' = "awaiting"
            /\ stop_kind' = kind
            /\ stop_task' = stream_task
            /\ start_overlap' = FALSE
            /\ UNCHANGED <<buffer, quiet>>
       ELSE /\ buffer' = AfterStop(kind, buffer)
            /\ quiet' = IF kind = "shutdown" THEN "shutdown" ELSE "stopped"
            /\ UNCHANGED <<cancel, stop_pc, stop_kind, stop_task, start_overlap>>
    /\ UNCHANGED <<buffer_size, source, paused, event_callbacks, stream_task, heap, pc,
                   cur, obj, idx, fanout, unsub, cancelled_at,
                   outside, ended, child>>

\* The awaited task has finished: stop_streaming() returns; shutdown() flushes.
StopAwaitDone == pc[stop_task] = "done"

StopReturn ==
    /\ stop_pc = "awaiting"
    /\ StopAwaitDone
    /\ stop_pc' = "idle"
    /\ stop_task' = 0
    /\ stop_kind' = "stop"
    /\ buffer' = AfterStop(stop_kind, buffer)
    /\ quiet' = IF start_overlap THEN "no"
                ELSE IF stop_kind = "shutdown" THEN "shutdown" ELSE "stopped"
    /\ start_overlap' = FALSE
    /\ UNCHANGED <<cancelled_at, buffer_size, source, running, paused, event_callbacks, stream_task,
                   heap, loops, fanout, unsub, paused_pulls,
                   outside, ended, child>>

\* subscribe(callback): append, with no check for an existing registration.
Subscribe(cb) ==
    /\ Len(event_callbacks) < MaxSubs
    /\ event_callbacks' = Append(event_callbacks, cb)
    /\ pending' = [t \in Tasks |-> pending[t] \ {cb}]
    /\ banned' = [t \in Tasks |-> banned[t] \ {cb}]
    /\ unsub' = unsub \ {cb}
    /\ UNCHANGED <<buffer_size, buffer, source, running, paused, stream_task, heap, loops,
                   stopcall, outcome, how, paused_pulls, start_overlap, quiet,
                   cancelled_at,
                   outside, ended, child>>

\* unsubscribe(callback): remove the first occurrence if there is one.
Unsubscribe(cb) ==
    /\ event_callbacks' = ListRemove(event_callbacks, cb)
    /\ pending' = [t \in Tasks |-> pending[t] \ {cb}]
    /\ unsub' = IF running THEN unsub \cup {cb} ELSE unsub
    /\ UNCHANGED <<buffer_size, buffer, source, running, paused, stream_task, heap, loops,
                   stopcall, banned, outcome, paused_pulls, start_overlap, quiet, how,
                   cancelled_at,
                   outside, ended, child>>

Pause ==
    /\ paused' = TRUE
    /\ UNCHANGED <<buffer_size, buffer, source, running, event_callbacks, stream_task,
                   heap, loops, stopcall, history, outside, ended, child>>

Resume ==
    /\ paused' = FALSE
    /\ paused_pulls' = [t \in Tasks |-> 0]
    /\ UNCHANGED <<buffer_size, buffer, source, running, event_callbacks, stream_task,
                   heap, loops, stopcall, fanout, unsub, start_overlap, quiet, cancelled_at,
                   outside, ended, child>>

Flushed ==
    /\ buffer' = <<>>
    /\ UNCHANGED <<buffer_size, source, running, paused, event_callbacks, stream_task,
                   heap, loops, stopcall, history, ended, child>>

FlushBuffer == Flushed /\ UNCHANGED outside

\* get_buffer(): list(self.buffer), a new list of the same event objects.
\* `seen` keeps what those objects held when the list was made.
GetBufferCall ==
    /\ returned' = [op |-> "get_buffer", value |-> buffer,
                    seen |-> [i \in 1..Len(buffer) |-> heap[buffer[i]]]]
    /\ UNCHANGED <<engine, heap, loops, stopcall, history, ended, child, env, snap, live, line,
                   parsed, beyond>>

\* ---------------------------------------------------- the consumption loop
\* The loop body after the pause check, for event e of heap h (lines 111-141):
\* a continuation event is merged into the last buffered event when there is one,
\* any other event takes a new slot; then the fan-out loop starts.
MergesIgnoresFlag(e, h) == Len(buffer) > 0

Merges(e, h) == IsContinuation(h[e]) /\ Len(buffer) > 0

Accept(t, e, h) ==
    /\ IF Merges(e, h)
       THEN LET last == buffer[Len(buffer)] IN
            /\ heap' = [h EXCEPT ![last] = MergeEvent(h[last], h[e])]
            /\ buffer' = buffer
            /\ obj' = [obj EXCEPT ![t] = last]
            /\ how' = [how EXCEPT ![t] = "merge"]
       ELSE /\ heap' = h
            /\ buffer' = DequeAppend(buffer, e, buffer_size)
            /\ obj' = [obj EXCEPT ![t] = e]
            /\ how' = [how EXCEPT ![t] = IF Len(buffer) >= buffer_size THEN "evict" ELSE "append"]
    /\ cur' = [cur EXCEPT ![t] = 0]
    /\ idx' = [idx EXCEPT ![t] = 1]
    /\ pc' = [pc EXCEPT ![t] = "notify"]
    /\ pending' = [pending EXCEPT ![t] = Range(event_callbacks)]
    /\ banned' = [banned EXCEPT ![t] = unsub]
    /\ outcome' = [outcome EXCEPT ![t] = "none"]

\* The task ends: nothing of it is left.
Finish(t) ==
    /\ pc' = [pc EXCEPT ![t] = "done"]
    /\ cancel' = [cancel EXCEPT ![t] = FALSE]
    /\ cur' = [cur EXCEPT ![t] = 0]
    /\ obj' = [obj EXCEPT ![t] = 0]
    /\ idx' = [idx EXCEPT ![t] = 0]
    /\ pending' = [pending EXCEPT ![t] = {}]
    /\ banned' = [banned EXCEPT ![t] = {}]
    /\ how' = [how EXCEPT ![t] = "none"]

\* Counts an event pulled while paused and running (history only).
CountPull(t) ==
    IF paused /\ running
    THEN [paused_pulls EXCEPT ![t] = IF @ < 2 THEN @ + 1 ELSE @]
    ELSE paused_pulls

\* stream_live() yields the next event (line 102); then lines 103-108:
\* break if not running, idle while paused, else handle the event.
Pulled(t, cont) ==
    /\ pc[t] = "next"
    /\ ~cancel[t]
    /\ Len(heap) < MaxEvents
    /\ LET e == Len(heap) + 1
           h == Append(heap, NewEvent(e, cont))
       IN  IF ~running
           THEN /\ heap' = h
                /\ Finish(t)
                /\ outcome' = [outcome EXCEPT ![t] = "none"]
                /\ UNCHANGED <<buffer>>
           ELSE IF paused
           THEN /\ heap' = h
                /\ pc' = [pc EXCEPT ![t] = "idle"]
                /\ cur' = [cur EXCEPT ![t] = e]
                /\ UNCHANGED <<buffer, cancel, obj, idx, fanout>>
           ELSE /\ Accept(t, e, h)
                /\ UNCHANGED <<cancel>>
    /\ paused_pulls' = CountPull(t)
    /\ UNCHANGED <<buffer_size, source, running, paused, event_callbacks, stream_task,
                   stopcall, unsub, start_overlap, quiet, cancelled_at, child>>
    /\ ended' = IF running THEN ended ELSE "break"

Pull(t, cont) == Pulled(t, cont) /\ UNCHANGED outside

\* The pause-idle sleep returns and `while self.paused and self.running` is false.
IdleOverIgnoresPause == TRUE

IdleNeverOver == FALSE

IdleOver == ~(paused /\ running)

Wake(t) ==
    /\ pc[t] = "idle"
    /\ ~cancel[t]
    /\ IdleOver
    /\ Accept(t, cur[t], heap)
    /\ UNCHANGED <<buffer_size, source, running, paused, event_callbacks, stream_task,
                   cancel, stopcall, unsub, paused_pulls, start_overlap, quiet, cancelled_at,
                   outside, ended, child>>

\* The adapter's live sequence ends (EOF): the loop returns, running is left as it is.
Ended(t) ==
    /\ pc[t] = "next"
    /\ ~cancel[t]
    /\ Finish(t)
    /\ UNCHANGED <<engine, heap, stopcall, unsub, outcome, paused_pulls, start_overlap,
                   quiet, cancelled_at>>
    /\ ended' = "eof"

StreamEnd(t) ==
    /\ Ended(t)
    /\ child' = [child EXCEPT ![t] = GeneratorExit(@)]
    /\ UNCHANGED outside

\* The adapter's live sequence raises: `except Exception` clears running (lines 154-156).
RunningAfterStreamErrorKept == running

RunningAfterStreamError == FALSE

Failed(t) ==
    /\ pc[t] = "next"
    /\ ~cancel[t]
    /\ Finish(t)
    /\ running' = RunningAfterStreamError
    /\ paused_pulls' = [u \in Tasks |-> 0]
    /\ UNCHANGED <<buffer_size, buffer, source, paused, event_callbacks, stream_task, heap,
                   stopcall, unsub, outcome, start_overlap, quiet, cancelled_at>>
    /\ ended' = "error"

StreamFail(t) ==
    /\ Failed(t)
    /\ child' = [child EXCEPT ![t] = GeneratorExit(@)]
    /\ UNCHANGED outside

\* CancelledError thrown at the await of the next line or of the idle sleep:
\* `except asyncio.CancelledError: pass` (lines 152-153).
CancelLoop(t) ==
    /\ pc[t] \in {"next", "idle"}
    /\ cancel[t]
    /\ Finish(t)
    /\ cancelled_at' = pc[t]
    /\ ended' = "cancelled"
    /\ child' = [child EXCEPT ![t] = IF pc[t] = "next" THEN GeneratorExit(@) ELSE @]
    /\ UNCHANGED outside
    /\ UNCHANGED <<engine, heap, stopcall, unsub, outcome, paused_pulls, start_overlap,
                   quiet>>

\* A generator abandoned while suspended at its yield (the loop broke out, or
\* was cancelled away from the generator's own await) is not closed by the
\* loop: the event loop's asynchronous-generator finalizer closes it when the
\* object is collected, and only then does its `finally` run.
Finalize(t) ==
    /\ pc[t] = "done"
    /\ child[t] = "running"
    /\ child' = [child EXCEPT ![t] = GeneratorExit(@)]
    /\ UNCHANGED <<engine, heap, loops, stopcall, history, ended, outside>>

\* ------------------------------------------------------------- the fan-out
\* `for callback in self.event_callbacks` (lines 129-135, 144-150) iterates the
\* live list: each round the list iterator compares its position with the
\* list's current length.
Exhausted(t) == idx[t] > Len(event_callbacks)

\* The iterator is exhausted: the loop goes back to wait for the next event.
FanoutDone(t) ==
    /\ pc[t] = "notify"
    /\ Exhausted(t)
    /\ pc' = [pc EXCEPT ![t] = "next"]
    /\ obj' = [obj EXCEPT ![t] = 0]
    /\ idx' = [idx EXCEPT ![t] = 0]
    /\ pending' = [pending EXCEPT ![t] = {}]
    /\ banned' = [banned EXCEPT ![t] = {}]
    /\ how' = [how EXCEPT ![t] = "none"]
    /\ outcome' = [outcome EXCEPT ![t] = "none"]
    /\ UNCHANGED <<engine, heap, cancel, cur, stopcall, unsub, paused_pulls, start_overlap,
                   quiet, cancelled_at,
                   outside, ended, child>>

\* The callback the iterator yields.
Called(t) == event_callbacks[idx[t]]

\* A callback has completed without an error: next round of the for loop.
CallbackOk(t, res) ==
    /\ pc' = [pc EXCEPT ![t] = "notify"]
    /\ idx' = [idx EXCEPT ![t] = @ + 1]
    /\ outcome' = [outcome EXCEPT ![t] = res]
    /\ UNCHANGED <<engine, heap, cur, obj, stopcall, banned, unsub, paused_pulls,
                   start_overlap, quiet, how, cancelled_at,
                   outside, ended, child>>

\* A callback raised: `except Exception` inside the for loop logs the error
\* (lines 134-135, 149-150) and the for loop goes on with its next round.
CallbackErrorEscapes(t) ==
    /\ Finish(t)
    /\ running' = FALSE
    /\ outcome' = [outcome EXCEPT ![t] = "raised"]
    /\ UNCHANGED <<buffer_size, buffer, source, paused, event_callbacks, stream_task, heap,
                   stopcall, unsub, paused_pulls, start_overlap, quiet, cancelled_at,
                   outside, child>>
    /\ ended' = "error"

CallbackError(t) ==
    /\ pc' = [pc EXCEPT ![t] = "notify"]
    /\ idx' = [idx EXCEPT ![t] = @ + 1]
    /\ outcome' = [outcome EXCEPT ![t] = "raised"]
    /\ pending' = IF pc[t] = "notify" THEN [pending EXCEPT ![t] = @ \ {Called(t)}] ELSE pending
    /\ UNCHANGED <<engine, heap, cur, obj, cancel, stopcall, banned, unsub, paused_pulls,
                   start_overlap, quiet, how, cancelled_at,
                   outside, ended, child>>

Invokable(t) == pc[t] = "notify" /\ ~Exhausted(t)

\* callback(obj) returns a plain value, or a coroutine that ends without suspending.
CallReturn(t) ==
    /\ Invokable(t)
    /\ pending' = [pending EXCEPT ![t] = @ \ {Called(t)}]
    /\ CallbackOk(t, "returned")
    /\ UNCHANGED cancel

\* callback(obj) raises synchronously.
CallRaise(t) ==
    /\ Invokable(t)
    /\ CallbackError(t)

\* callback(obj) returns a coroutine that suspends: the loop awaits it (lines 133, 148).
CallSuspend(t) ==
    /\ Invokable(t)
    /\ pending' = [pending EXCEPT ![t] = @ \ {Called(t)}]
    /\ pc' = [pc EXCEPT ![t] = "await"]
    /\ outcome' = [outcome EXCEPT ![t] = "none"]
    /\ UNCHANGED <<engine, heap, cancel, cur, obj, idx, stopcall, banned, unsub,
                   paused_pulls, start_overlap, quiet, how, cancelled_at,
                   outside, ended, child>>

\* The awaited coroutine returns.
AwaitReturn(t) ==
    /\ pc[t] = "await"
    /\ ~cancel[t]
    /\ CallbackOk(t, "returned")
    /\ UNCHANGED <<cancel, pending>>

\* The awaited coroutine raises.
AwaitRaise(t) ==
    /\ pc[t] = "await"
    /\ ~cancel[t]
    /\ CallbackError(t)

\* CancelledError is thrown into the awaited coroutine. It is a BaseException:
\* `except Exception` does not catch it, the loop ends at lines 152-153.
CancelAwait(t) ==
    /\ pc[t] = "await"
    /\ cancel[t]
    /\ Finish(t)
    /\ cancelled_at' = pc[t]
    /\ ended' = "cancelled"
    /\ UNCHANGED <<outside, child>>
    /\ outcome' = [outcome EXCEPT ![t] = "none"]
    /\ UNCHANGED <<engine, heap, stopcall, unsub, paused_pulls, start_overlap, quiet>>

\* The awaited coroutine catches the CancelledError and returns: the request is
\* used up and the loop goes on.
CancelSwallowed(t) ==
    /\ pc[t] = "await"
    /\ cancel[t]
    /\ cancel' = [cancel EXCEPT ![t] = FALSE]
    /\ CallbackOk(t, "returned")
    /\ UNCHANGED pending

\* ---------------------------------------------------------------- parser
\* KernelLogParser (src/core/parser.py). A line is known by what the regular
\* expressions find in its stripped text:
\*   form   "empty" | "blank" | "timestamped" ([<number>] <rest>) |
\*          "prefix" (<N>subsystem: message, no timestamp) | "neither"
\*   ts     the bracketed number: "valid" | "invalid" (float() refuses it)
\*   digit  the priority digit N of <N>, -1 when the rest has no such prefix
\*   subsystem  the name found before the message, "" when none
\*   words  the message, word by word
\*   fault  an exception is raised while the line is handled (inside the try)
Severities == {"EMERG", "ALERT", "CRIT", "ERR", "WARN", "NOTICE", "INFO", "DEBUG"}

\* SEVERITY_LEVELS (lines 63-72).
SEVERITY_LEVELS ==
    (0 :> "EMERG") @@ (1 :> "ALERT") @@ (2 :> "CRIT") @@ (3 :> "ERR") @@
    (4 :> "WARN") @@ (5 :> "NOTICE") @@ (6 :> "INFO") @@ (7 :> "DEBUG")

Digits == 0..9

\* The words messages are made of, upper-case forms included.
Words == {"panic", "PANIC", "alert", "error", "warning", "note", "debug:", "Code:", "hello"}

\* str.lower() on a word.
Lower(w) ==
    CASE w = "PANIC" -> "panic"
      [] w = "Code:" -> "code:"
      [] OTHER -> w

\* The keywords of _infer_severity that are substrings of a lower-case word.
KeywordsIn(w) ==
    CASE w = "panic" -> {"panic"}
      [] w = "alert" -> {"alert"}
      [] w = "error" -> {"error", "err"}
      [] w = "warning" -> {"warning", "warn"}
      [] w = "note" -> {"note"}
      [] w = "debug:" -> {"debug", "bug:"}
      [] OTHER -> {}

\* any(keyword in message_lower for keyword in kws)
AnyKeyword(kws, msg) == \E i \in 1..Len(msg) : KeywordsIn(Lower(msg[i])) \cap kws # {}

EmergKeywords == {"panic", "oops", "fatal", "emergency", "crash", "bug:"}
AlertKeywords == {"alert", "failure", "critical", "corruption"}
ErrKeywords == {"error", "err", "failed", "segfault", "fault", "invalid", "unable", "cannot", "timeout"}
WarnKeywords == {"warning", "warn", "deprecated", "attention"}
NoticeKeywords == {"notice", "note", "fyi"}
DebugKeywords == {"debug", "trace", "verbose", "dump"}

\* _infer_severity (lines 305-350): the chain of if statements.
InferSeverityWarnFirst(msg) ==
    IF msg = <<>> THEN "INFO"
    ELSE IF AnyKeyword(WarnKeywords, msg) THEN "WARN"
    ELSE IF AnyKeyword(EmergKeywords, msg) THEN "EMERG"
    ELSE IF AnyKeyword(AlertKeywords, msg) THEN "ALERT"
    ELSE IF AnyKeyword(ErrKeywords, msg) THEN "ERR"
    ELSE IF AnyKeyword(NoticeKeywords, msg) THEN "NOTICE"
    ELSE IF AnyKeyword(DebugKeywords, msg) THEN "DEBUG"
    ELSE "INFO"

InferSeverity(msg) ==
    IF msg = <<>> THEN "INFO"
    ELSE IF AnyKeyword(EmergKeywords, msg) THEN "EMERG"
    ELSE IF AnyKeyword(AlertKeywords, msg) THEN "ALERT"
    ELSE IF AnyKeyword(ErrKeywords, msg) THEN "ERR"
    ELSE IF AnyKeyword(WarnKeywords, msg) THEN "WARN"
    ELSE IF AnyKeyword(NoticeKeywords, msg) THEN "NOTICE"
    ELSE IF AnyKeyword(DebugKeywords, msg) THEN "DEBUG"
    ELSE "INFO"

\* _normalize_severity (lines 277-303). The strings it is given here are
\* upper-case and stripped already; "" stands for None.
SeverityMapping(x) ==
    CASE x = "ERROR" -> "ERR"
      [] x = "WARNING" -> "WARN"
      [] x = "NOTE" -> "NOTICE"
      [] x = "INFORMATION" -> "INFO"
      [] x = "CRITICAL" -> "CRIT"
      [] x = "EMERGENCY" -> "EMERG"
      [] OTHER -> x

NormalizeSeverity(x) ==
    IF x = "" THEN "INFO"
    ELSE IF x \in Severities THEN x
    ELSE SeverityMapping(x)

\* _is_continuation_line (lines 352-377): the message starts with a marker.
ContinuationMarkers == {"Code:"}
IsContinuationLine(msg) == msg # <<>> /\ Head(msg) \in ContinuationMarkers

Absent == [result |-> "None"]
Raised == [result |-> "raised"]
Event(sev, sub, msg, ts, src, ann) ==
    [result |-> "event", severity |-> sev, subsystem |-> IF sub = "" THEN "KERNEL" ELSE sub,
     message |-> msg, timestamp_monotonic |-> ts, source |-> src, annotations |-> ann]

\* _parse_kernel_prefix (lines 226-256).
ParseKernelPrefix(l, src) ==
    IF l.form # "prefix" THEN Absent
    ELSE LET severity == IF l.digit \in DOMAIN SEVERITY_LEVELS
                         THEN SEVERITY_LEVELS[l.digit] ELSE "UNKNOWN"
         IN  Event(NormalizeSeverity(severity), l.subsystem, l.words, "None", src, {})

\* The timestamped path of parse_dmesg_line (lines 136-220).
ParseTimestamped(l, src) ==
    LET ts == IF l.ts = "valid" THEN "seconds" ELSE "None"
        prefixed == IF l.digit \in DOMAIN SEVERITY_LEVELS THEN SEVERITY_LEVELS[l.digit] ELSE ""
        severity == IF prefixed # "" THEN prefixed ELSE InferSeverity(l.words)
    IN  Event(NormalizeSeverity(severity), l.subsystem, l.words, ts, src,
              IF IsContinuationLine(l.words) THEN {"continuation"} ELSE {})

\* What an exception raised inside the try block becomes (lines 222-224).
ParseFailureEscapes == Raised

ParseFailure == Absent

\* parse_dmesg_line (lines 101-224).
ParseDmesgLine(l, src) ==
    IF l.form \in {"empty", "blank"} THEN Absent
    ELSE IF l.fault THEN ParseFailure
    ELSE IF l.form = "timestamped" THEN ParseTimestamped(l, src)
    ELSE ParseKernelPrefix(l, src)

\* The lines tried.
Messages == UNION {[1..n -> Words] : n \in 0..MaxWords}
Line(form, ts, digit, sub, words, fault) ==
    [form |-> form, ts |-> ts, digit |-> digit, subsystem |-> sub, words |-> words, fault |-> fault]
Lines ==
    {Line(f, "None", -1, "", <<>>, FALSE) : f \in {"empty", "blank"}}
    \cup {Line("neither", "None", -1, "", m, b) : m \in Messages \ {<<>>}, b \in BOOLEAN}
    \cup {Line("timestamped", ts, d, sub, m, b) :
              ts \in {"valid", "invalid"}, d \in Digits \cup {-1}, sub \in {"", "usb"},
              m \in Messages, b \in BOOLEAN}
    \cup {Line("prefix", "None", d, sub, m, b) :
              d \in Digits, sub \in {"", "usb"}, m \in Messages, b \in BOOLEAN}

\* A caller has a line, calls parse_dmesg_line(line, source) on it, and is
\* done with what it got.
GiveLine(l) ==
    /\ line = NoLine
    /\ line' = l
    /\ parsed' = NoCall
    /\ UNCHANGED <<beyond, engine, heap, loops, stopcall, history, ended, child, env, snap, live, returned>>

ParseCall(src) ==
    /\ line # NoLine
    /\ parsed = NoCall
    /\ parsed' = [op |-> "parse", source |-> src, value |-> ParseDmesgLine(line, src)]
    /\ UNCHANGED <<beyond, engine, heap, loops, stopcall, history, ended, child, env, snap, live, line,
                   returned>>

ParseDone ==
    /\ parsed # NoCall
    /\ line' = NoLine
    /\ parsed' = NoCall
    /\ UNCHANGED <<beyond, engine, heap, loops, stopcall, history, ended, child, env, snap, live, returned>>

\* ------------------------------------------- the adapters and their tools
\* The external tool of an adapter is in one of four states when it is run:
\*   "ok"       it runs and exits 0
\*   "missing"  the binary is not found (FileNotFoundError)
\*   "timeout"  subprocess.run(..., timeout=...) gives up (subprocess.TimeoutExpired)
\*   "nonzero"  it runs and exits with a nonzero status
\* `output` is what the kernel log holds, oldest line first.
ToolStates == {"ok", "missing", "timeout", "nonzero"}

HelloLine == Line("timestamped", "valid", -1, "", <<"hello">>, FALSE)
NoteLine == Line("timestamped", "valid", -1, "usb", <<"note">>, FALSE)
JunkLine == Line("neither", "None", -1, "", <<"hello">>, FALSE)
Outputs == UNION {[1..n -> {HelloLine, NoteLine, JunkLine}] : n \in 0..MaxOutput}

\* The tools change under the program.
ToolsChange(d, j, out) ==
    /\ env.changes < MaxToolChanges
    /\ env' = [dmesg |-> d, journal |-> j, output |-> out, changes |-> env.changes + 1]
    /\ UNCHANGED <<beyond, engine, heap, loops, stopcall, history, ended, child, snap, live, line,
                   parsed, returned>>

\* can_read_dmesg() / can_use_journalctl(): returncode == 0, False on any exception.
CanRead(st) == st = "ok"

\* get_available_sources()
AvailableSources(e) == {src \in Sources : CanRead(e[src])}

\* initialize() as a caller sees it.
InitializeCall ==
    LET avail == AvailableSources(env) IN
    /\ Selected(avail)
    /\ returned' = [op |-> "initialize", probes |-> avail, value |-> InitializeReturns(avail),
                    before |-> source]
    /\ UNCHANGED <<beyond, env, snap, live, line, parsed>>

\* seq[-n:]
LastLines(out, n) == IF Len(out) > n THEN SubSeq(out, Len(out) - n + 1, Len(out)) ELSE out

\* What the tool prints for a snapshot: `dmesg -L` the whole log,
\* `journalctl -k -n <buffer_size> -o short` its last buffer_size lines.
ToolOutput(src, e, n) == IF src = "journal" THEN LastLines(e.output, n) ELSE e.output

\* The loop over the lines of stdout: parse each, keep the events.
RECURSIVE ParseAll(_, _)
ParseAll(out, src) ==
    IF out = <<>> THEN <<>>
    ELSE LET ev == ParseDmesgLine(Head(out), src)
         IN  (IF ev.result = "event" THEN <<ev>> ELSE <<>>) \o ParseAll(Tail(out), src)

AdapterError(err) == [result |-> "error", error |-> err, events |-> <<>>]
AdapterEvents(evs) == [result |-> "events", error |-> "", events |-> evs]

\* get_snapshot() of the adapter src with buffer_size n (lines 38-64, 106-132).
\* subprocess.TimeoutExpired is not asyncio.TimeoutError: no except clause
\* takes it. Of the dmesg output only last_lines is cut to n, not the events.
GetSnapshot(src, e, n) ==
    CASE e[src] = "missing" -> AdapterError("SourceUnavailableError")
      [] e[src] = "timeout" -> AdapterError("TimeoutExpired")
      [] e[src] = "nonzero" -> AdapterError("PermissionDeniedError")
      [] OTHER -> AdapterEvents(ParseAll(ToolOutput(src, e, n), src))

\* load_snapshot() as a caller sees it: the adapter's error is raised again.
LoadSnapshotCall ==
    IF source = "None"
    THEN /\ returned' = [op |-> "load_snapshot", result |-> "error", error |-> "RuntimeError",
                         adapter |-> AdapterEvents(<<>>)]
         /\ UNCHANGED <<beyond, engine, heap, loops, stopcall, history, ended, child, env, snap, live,
                        line, parsed>>
    ELSE LET r == GetSnapshot(source, env, buffer_size) IN
         /\ snap' = [op |-> "get_snapshot", source |-> source, buffer_size |-> buffer_size,
                     tool |-> env[source], output |-> env.output,
                     result |-> r.result, error |-> r.error, events |-> r.events]
         /\ returned' = [op |-> "load_snapshot", result |-> r.result, error |-> r.error,
                         adapter |-> r]
         /\ IF r.result = "events"
            THEN Loaded(Len(r.events))
            ELSE UNCHANGED <<engine, heap, loops, stopcall, history, ended, child>>
         /\ UNCHANGED <<beyond, env, live, line, parsed>>

\* start_streaming() as a caller sees it: it returns once the task is created.
\* The child process is spawned by the task's first step, not by this call.
StartReturned == [op |-> "start_streaming", result |-> "value", error |-> ""]

StartStreamingCall ==
    IF running
    THEN /\ returned' = StartReturned
         /\ UNCHANGED <<beyond, engine, heap, loops, stopcall, history, ended, child, env, snap, live,
                        line, parsed>>
    ELSE IF source = "None"
    THEN /\ returned' = [op |-> "start_streaming", result |-> "error", error |-> "RuntimeError"]
         /\ UNCHANGED <<beyond, engine, heap, loops, stopcall, history, ended, child, env, snap, live,
                        line, parsed>>
    ELSE /\ Launch
         /\ child' = [child EXCEPT ![NewTask] = "unspawned"]
         /\ live' = [live EXCEPT ![NewTask] =
                        [op |-> "stream_live", source |-> source, tool |-> "unknown",
                         start |-> StartReturned.result, outcome |-> "unspawned", error |-> "",
                         status |-> "none"]]
         /\ returned' = StartReturned
         /\ UNCHANGED <<beyond, env, snap, line, parsed>>

\* stream_live() when create_subprocess_exec raises FileNotFoundError: the
\* except clause raises SourceUnavailableError, then `finally: if process:`
\* reads a name never bound, and that UnboundLocalError is what comes out
\* (sources.py 86-97, 154-165).
SpawnError == "UnboundLocalError"

\* The first step of the loop task: stream_live() spawns its child.
SpawnChild(t) ==
    /\ pc[t] = "next"
    /\ ~cancel[t]
    /\ child[t] = "unspawned"
    /\ IF env[source] = "missing"
       THEN /\ Failed(t)
            /\ child' = [child EXCEPT ![t] = "none"]
            /\ live' = [live EXCEPT ![t] = [@ EXCEPT !.source = source, !.tool = "missing",
                                                     !.outcome = "raised",
                                                     !.error = SpawnError]]
       ELSE /\ child' = [child EXCEPT ![t] = "running"]
            /\ live' = [live EXCEPT ![t] = [@ EXCEPT !.source = source, !.tool = env[source],
                                                     !.outcome = "open"]]
            /\ UNCHANGED <<engine, heap, loops, stopcall, history, ended>>
    /\ UNCHANGED <<beyond, env, snap, line, parsed, returned>>

\* The child exits by itself: readline() returns b'', the generator breaks out
\* of its loop and ends as a normal end of stream, whatever the exit status.
ChildExits(t) ==
    /\ child[t] = "running"
    /\ live[t].tool \in {"ok", "nonzero"}
    /\ Ended(t)
    /\ child' = [child EXCEPT ![t] = "exited"]
    /\ live' = [live EXCEPT ![t] = [@ EXCEPT !.outcome = "end",
                                             !.status = IF live[t].tool = "nonzero" THEN "nonzero"
                                                        ELSE "zero"]]
    /\ UNCHANGED <<beyond, env, snap, line, parsed, returned>>

\* ------------------------------------------------------ KernelLogReader
\* engine_initialized is set when engine.initialize() returned True (lines 82-83).
EngineInitialized == source # "None"

\* seq[i:] of Python, for i >= 0.
SliceFrom(seq, i) == SubSeq(seq, i + 1, Len(seq))

\* get_new_logs() (lines 53-69): the part of get_buffer() from
\* _last_buffer_index on, and the index moved to the length of the buffer.
GetNewLogs ==
    /\ IF ~EngineInitialized
       THEN /\ returned' = [op |-> "get_new_logs", value |-> <<>>, entered |-> entered]
            /\ UNCHANGED <<last_buffer_index, entered>>
       ELSE LET events == buffer
                from == IF last_buffer_index < 0 THEN 0 ELSE last_buffer_index
            IN  /\ returned' = [op |-> "get_new_logs", value |-> SliceFrom(events, from),
                                entered |-> entered]
                /\ last_buffer_index' = Len(events)
                /\ entered' = <<>>
    /\ UNCHANGED <<engine, heap, loops, stopcall, history, ended, child, env, snap, live, line,
                   parsed, manager, widget>>

\* The loop takes the next event while a reader polls: as Pull, with the
\* event noted when it took a slot of the buffer.
ReaderPull(t, cont) ==
    /\ Pulled(t, cont)
    /\ entered' = IF pc'[t] = "notify" /\ how'[t] \in {"append", "evict"}
                  THEN Append(entered, Len(heap) + 1)
                  ELSE entered
    /\ UNCHANGED <<env, snap, live, line, parsed, returned, last_buffer_index, manager, widget>>

\* ------------------------------------------------------------------ two threads
\* KernelLogReader runs start_streaming() and with it the consumption loop on
\* a thread of its own (kernel_log_reader.py 91-113), while get_new_logs(),
\* clear_buffer() and get_recent_logs() run on the thread of their caller and
\* go straight to engine.get_buffer(), flush_buffer() and load_snapshot()
\* (lines 59, 74, 46); neither side takes a lock. With two threads a step of
\* the caller's thread can fall between two statements of the loop: the merge
\* of lines 119-124 is taken statement by statement, the loop being at pc
\* "merge" after line 121 with obj the last entry and cur the incoming event.
MergeBegin(t) ==
    /\ pc[t] = "next"
    /\ ~cancel[t]
    /\ Len(heap) < MaxEvents
    /\ running /\ ~paused
    /\ Len(buffer) > 0
    /\ LET e == Len(heap) + 1
           last == buffer[Len(buffer)]
       IN  /\ heap' = [Append(heap, NewEvent(e, TRUE)) EXCEPT
                          ![last] = MergeMessage(@, NewEvent(e, TRUE))]
           /\ pc' = [pc EXCEPT ![t] = "merge"]
           /\ cur' = [cur EXCEPT ![t] = e]
           /\ obj' = [obj EXCEPT ![t] = last]
    /\ UNCHANGED <<engine, cancel, idx, stopcall, history, ended, child, outside>>

\* Lines 122-124, then the fan-out of the merged entry starts.
MergeEnd(t) ==
    /\ pc[t] = "merge"
    /\ heap' = [heap EXCEPT ![obj[t]] = MergeRest(@, heap[cur[t]])]
    /\ pc' = [pc EXCEPT ![t] = "notify"]
    /\ cur' = [cur EXCEPT ![t] = 0]
    /\ idx' = [idx EXCEPT ![t] = 1]
    /\ how' = [how EXCEPT ![t] = "merge"]
    /\ pending' = [pending EXCEPT ![t] = Range(event_callbacks)]
    /\ banned' = [banned EXCEPT ![t] = unsub]
    /\ outcome' = [outcome EXCEPT ![t] = "none"]
    /\ UNCHANGED <<engine, cancel, obj, stopcall, unsub, cancelled_at, paused_pulls,
                   start_overlap, quiet, ended, child, outside>>

\* The loop's other rounds: an event that takes a slot of its own.
ThreadPull(t, cont) ==
    /\ ~(cont /\ Len(buffer) > 0 /\ running /\ ~paused)
    /\ ReaderPull(t, cont)

\* ------------------------------------------------------------------ plugin manager
\* PluginManager (src/plugins/manager.py). A plugin instance is an entry of
\* insts (its index is its identity): the name it was created for, how its
\* on_load went ("none" = never invoked) and how often on_unload was invoked
\* on it. plugins maps a name to the instance registered under it (0 = no
\* entry). mcalls holds the calls of the manager's coroutines in flight: a call
\* is suspended (pc = "hook") exactly where the code awaits a plugin hook, and
\* everything between two awaits is one step.

\* What the manager leaves alone.
unmanaged == <<engine, heap, loops, stopcall, history, ended, child,
               env, snap, live, line, parsed, returned, reader, widget>>

\* What _load_plugin_module / the version check find for a plugin file.
PluginFiles == {"missing", "noclass", "old", "ok"}

\* A call of coroutine op on name has begun in slot c.
Call(op, n) == [NoCaller EXCEPT !.op = op, !.name = n]

\* The call returned (or raised: result names the exception); its iterator
\* and key list are gone with its frame.
Return(call, result) ==
    [call EXCEPT !.pc = "done", !.result = result, !.start = {}, !.visited = {}, !.todo = {}]

\* The process_event calls in flight lose name n from the names that stayed
\* enabled and loaded since they began (history).
Unstable(calls, n) ==
    [c \in Calls |-> IF calls[c].op = "process" /\ calls[c].pc # "done"
                     THEN [calls[c] EXCEPT !.stable = @ \ {n}]
                     ELSE calls[c]]

\* set_context().
SetContext ==
    /\ context_impl' = TRUE
    /\ UNCHANGED <<plugins, enabled_plugins, insts, mcalls, unmanaged>>

\* enable_plugin(n): only a loaded plugin is enabled.
EnabledAnyway(n) ==
    /\ enabled_plugins' = enabled_plugins \cup {n}
    /\ UNCHANGED <<plugins, context_impl, insts, mcalls>>

Enabled(n) ==
    /\ enabled_plugins' = IF plugins[n] # 0 THEN enabled_plugins \cup {n} ELSE enabled_plugins
    /\ UNCHANGED <<plugins, context_impl, insts, mcalls>>

EnablePlugin(n) == Enabled(n) /\ UNCHANGED unmanaged

\* enable_plugin(n) as a caller sees it: False for a name that is not loaded.
EnablePluginCall(n) ==
    /\ Enabled(n)
    /\ returned' = [op |-> "enable_plugin", name |-> n, value |-> plugins[n] # 0]
    /\ UNCHANGED <<engine, heap, loops, stopcall, history, ended, child,
                   env, snap, live, line, parsed, reader, widget>>

\* disable_plugin(n): set.discard.
DisablePlugin(n) ==
    /\ enabled_plugins' = enabled_plugins \ {n}
    /\ mcalls' = Unstable(mcalls, n)
    /\ UNCHANGED <<plugins, context_impl, insts, unmanaged>>

\* load_plugin(n), up to its return or to the await of on_load. file is what
\* the plugin path holds.
LoadBegin(c, n, file) ==
    /\ mcalls[c].pc = "done"
    /\ IF plugins[n] # 0
       THEN /\ mcalls' = [mcalls EXCEPT ![c] = Return([Call("load", n) EXCEPT !.case = "registered"], "True")]
            /\ UNCHANGED <<plugins, insts>>
       ELSE IF file \in {"missing", "noclass"}
       THEN /\ mcalls' = [mcalls EXCEPT ![c] = Return([Call("load", n) EXCEPT !.case = file], "PluginLoadError")]
            /\ UNCHANGED <<plugins, insts>>
       ELSE /\ Len(insts) < MaxInstances
            /\ LET i == Len(insts) + 1
                   call == [Call("load", n) EXCEPT !.inst = i]
               IN  IF file = "old"
                   THEN /\ insts' = Append(insts, [name |-> n, on_load |-> "none", unloads |-> 0])
                        /\ mcalls' = [mcalls EXCEPT ![c] = Return([call EXCEPT !.case = "version"], "PluginLoadError")]
                        /\ UNCHANGED plugins
                   ELSE IF context_impl
                   THEN /\ insts' = Append(insts, [name |-> n, on_load |-> "invoked", unloads |-> 0])
                        /\ mcalls' = [mcalls EXCEPT ![c] = [call EXCEPT !.pc = "hook"]]
                        /\ UNCHANGED plugins
                   ELSE /\ insts' = Append(insts, [name |-> n, on_load |-> "none", unloads |-> 0])
                        /\ plugins' = [plugins EXCEPT ![n] = i]
                        /\ mcalls' = [mcalls EXCEPT ![c] = Return([call EXCEPT !.case = "no_hook"], "True")]
    /\ UNCHANGED <<enabled_plugins, context_impl, unmanaged>>

\* on_load returned True or False, or raised: load_plugin resumes and ends.
LoadResume(c, out) ==
    /\ mcalls[c].op = "load"
    /\ mcalls[c].pc = "hook"
    /\ LET call == mcalls[c]
       IN  /\ insts' = [insts EXCEPT ![call.inst].on_load = out]
           /\ plugins' = IF out = "true" THEN [plugins EXCEPT ![call.name] = call.inst] ELSE plugins
           /\ mcalls' = [mcalls EXCEPT ![c] =
                  Return([call EXCEPT !.case = "hook_" \o out],
                         CASE out = "true" -> "True"
                           [] out = "false" -> "False"
                           [] OTHER -> "PluginLoadError")]
    /\ UNCHANGED <<enabled_plugins, context_impl, unmanaged>>

\* The instance registered under n has its on_unload invoked once more.
OnUnloadInvoked(n) ==
    [insts EXCEPT ![plugins[n]].unloads = IF @ < 2 THEN @ + 1 ELSE @]

\* unload_plugin(n), up to its return or to the await of on_unload.
UnloadBegin(c, n) ==
    /\ mcalls[c].pc = "done"
    /\ IF plugins[n] = 0
       THEN /\ mcalls' = [mcalls EXCEPT ![c] = Return([Call("unload", n) EXCEPT !.case = "not_loaded"], "False")]
            /\ UNCHANGED insts
       ELSE /\ insts' = OnUnloadInvoked(n)
            /\ mcalls' = [mcalls EXCEPT ![c] =
                  [Call("unload", n) EXCEPT !.pc = "hook", !.inst = plugins[n], !.case = "loaded"]]
    /\ UNCHANGED <<plugins, enabled_plugins, context_impl, unmanaged>>

\* unload_plugin's result after on_unload returned or raised: del
\* self.plugins[name] raises KeyError when the entry is gone, and every
\* exception makes the result False.
Unloaded(n, out) == IF out = "return" /\ plugins[n] # 0 THEN "True" ELSE "False"

\* self.enabled_plugins.discard(plugin_name), reached when the del succeeded.
DiscardedNever(n, ok) == enabled_plugins

Discarded(n, ok) == IF ok THEN enabled_plugins \ {n} ELSE enabled_plugins

\* on_unload returned or raised: unload_plugin resumes and ends.
UnloadResume(c, out) ==
    /\ mcalls[c].op = "unload"
    /\ mcalls[c].pc = "hook"
    /\ LET n == mcalls[c].name
           ok == Unloaded(n, out) = "True"
           calls == [mcalls EXCEPT ![c] = Return(@, Unloaded(n, out))]
       IN  /\ plugins' = IF ok THEN [plugins EXCEPT ![n] = 0] ELSE plugins
           /\ enabled_plugins' = Discarded(n, ok)
           /\ mcalls' = IF ok THEN Unstable(calls, n) ELSE calls
    /\ UNCHANGED <<context_impl, insts, unmanaged>>

\* shutdown()'s loop from the registry reg on, for the call record call: the
\* names of the key list that have no entry any more return False at once;
\* the loop suspends in on_unload of one that has, and shutdown returns when
\* none is left. The order of the key list is left open.
ShutdownLoop(c, call, reg, calls) ==
    LET left == {n \in call.todo : reg[n] # 0}
    IN  IF left = {}
        THEN /\ mcalls' = [calls EXCEPT ![c] = Return([call EXCEPT !.todo = {}], "None")]
             /\ UNCHANGED insts
        ELSE \E n \in left :
                /\ insts' = OnUnloadInvoked(n)
                /\ mcalls' = [calls EXCEPT ![c] =
                       [call EXCEPT !.pc = "hook", !.name = n, !.inst = reg[n], !.todo = @ \ {n}]]

\* shutdown(), up to its return or to the await of the first on_unload.
ShutdownBegin(c) ==
    /\ mcalls[c].pc = "done"
    /\ ShutdownLoop(c, [Call("shutdown", "") EXCEPT
                           !.todo = {n \in PluginNames : plugins[n] # 0},
                           !.began = {plugins[n] : n \in {m \in PluginNames : plugins[m] # 0}}],
                    plugins, mcalls)
    /\ UNCHANGED <<plugins, enabled_plugins, context_impl, unmanaged>>

\* on_unload returned or raised inside shutdown()'s unload_plugin: the result
\* of unload_plugin is dropped and the loop goes on.
ShutdownResume(c, out) ==
    /\ mcalls[c].op = "shutdown"
    /\ mcalls[c].pc = "hook"
    /\ LET n == mcalls[c].name
           ok == Unloaded(n, out) = "True"
       IN  /\ plugins' = IF ok THEN [plugins EXCEPT ![n] = 0] ELSE plugins
           /\ enabled_plugins' = Discarded(n, ok)
           /\ ShutdownLoop(c, mcalls[c], IF ok THEN [plugins EXCEPT ![n] = 0] ELSE plugins,
                           IF ok THEN Unstable(mcalls, n) ELSE mcalls)
    /\ UNCHANGED <<context_impl, unmanaged>>

\* process_event()'s for loop over the set enabled_plugins, for the call
\* record call: the set iterator raises RuntimeError at the next() that finds
\* the set's size changed; else it yields members not yet visited (in an order
\* left open), names without a registry entry are skipped, and it is exhausted
\* once every member it started with that is still there has been yielded.
ProcessLoop(c, call) ==
    IF Cardinality(enabled_plugins) # Cardinality(call.start)
    THEN mcalls' = [mcalls EXCEPT ![c] = Return(call, "RuntimeError")]
    ELSE \E skipped \in SUBSET {n \in enabled_plugins \ call.visited : plugins[n] = 0} :
            \/ /\ (enabled_plugins \cap call.start) \subseteq (call.visited \cup skipped)
               /\ mcalls' = [mcalls EXCEPT ![c] =
                      Return(call, "None")]
            \/ \E n \in enabled_plugins \ (call.visited \cup skipped) :
                  /\ plugins[n] # 0
                  /\ mcalls' = [mcalls EXCEPT ![c] =
                         [call EXCEPT !.pc = "hook", !.name = n, !.inst = plugins[n],
                                      !.visited = @ \cup skipped \cup {n},
                                      !.invoked = @ \cup {n}]]

\* process_event(event), up to its return or to the await of the first on_event.
ProcessBegin(c) ==
    /\ mcalls[c].pc = "done"
    /\ ProcessLoop(c, [Call("process", "") EXCEPT
                          !.start = enabled_plugins,
                          !.stable = {n \in enabled_plugins : plugins[n] # 0}])
    /\ UNCHANGED <<plugins, enabled_plugins, context_impl, insts, unmanaged>>

\* on_event returned, raised an Exception (logged), or the task was cancelled
\* while it waited (CancelledError is re-raised).
ProcessResume(c, out) ==
    /\ mcalls[c].op = "process"
    /\ mcalls[c].pc = "hook"
    /\ IF out = "cancel"
       THEN mcalls' = [mcalls EXCEPT ![c] = Return(@, "CancelledError")]
       ELSE ProcessLoop(c, IF out = "raise"
                           THEN [mcalls[c] EXCEPT !.raised = @ \cup {mcalls[c].name}]
                           ELSE mcalls[c])
    /\ UNCHANGED <<plugins, enabled_plugins, context_impl, insts, unmanaged>>

\* ------------------------------------------------------------------ version check
\* _check_version_compatibility (src/plugins/manager.py 197-206). A version
\* string is the sequence of its dot-separated components.
Components == {"0", "1", "01", "2", "a"}

Versions == UNION {[1..n -> Components] : n \in 1..MaxParts}

\* int(x) succeeds.
IsInt(x) == x # "a"

\* int(x)
IntOf(x) ==
    CASE x = "0" -> 0
      [] x \in {"1", "01"} -> 1
      [] OTHER -> 2

\* [int(x) for x in version.split('.')]
Parts(v) == [i \in 1..Len(v) |-> IntOf(v[i])]

\* a >= b on lists of integers: the first position where they differ decides,
\* and a list that is a prefix of the other is the smaller one.
ListGE(a, b) ==
    LET m == IF Len(a) < Len(b) THEN Len(a) ELSE Len(b)
        differ == {i \in 1..m : a[i] # b[i]}
    IN  IF differ = {} THEN Len(a) >= Len(b)
        ELSE LET i == CHOOSE k \in differ : \A l \in differ : k <= l
             IN  a[i] > b[i]

CheckVersionCompatibility(required, available) ==
    IF \E i \in 1..Len(required) : ~IsInt(required[i]) THEN FALSE
    ELSE IF \E i \in 1..Len(available) : ~IsInt(available[i]) THEN FALSE
    ELSE ListGE(Parts(available), Parts(required))

\* A call of _check_version_compatibility(required, available).
CheckVersion(required, available) ==
    /\ returned' = [op |-> "check_version", required |-> required, available |-> available,
                    value |-> CheckVersionCompatibility(required, available)]
    /\ UNCHANGED <<engine, heap, loops, stopcall, history, ended, child,
                   env, snap, live, line, parsed, beyond>>

\* ------------------------------------------------------------------ event stream widget
\* EventStreamWidget (src/ui/event_stream.py): logs is the full history,
\* displayed_logs the logs behind the table rows, rows the table's rowCount()
\* and current_filters the filters stored by apply_filters ("None" before the
\* first call).

\* What the widget leaves alone.
unshown == <<engine, heap, loops, stopcall, history, ended, child,
             env, snap, live, line, parsed, returned, reader, manager>>

\* str.upper() and str.lower() on the strings the logs and filters hold.
UpperCase(s) ==
    CASE s \in {"err", "ERR"} -> "ERR"
      [] s \in {"info", "INFO"} -> "INFO"
      [] s \in {"usb", "USB"} -> "USB"
      [] s \in {"net", "NET"} -> "NET"
      [] s \in {"dmesg", "DMESG"} -> "DMESG"
      [] s \in {"journal", "Journal"} -> "JOURNAL"
      [] s \in {"fail", "FAIL"} -> "FAIL"
      [] s \in {"link", "Link"} -> "LINK"
      [] OTHER -> s

LowerCase(s) ==
    CASE UpperCase(s) = "ERR" -> "err"
      [] UpperCase(s) = "INFO" -> "info"
      [] UpperCase(s) = "USB" -> "usb"
      [] UpperCase(s) = "NET" -> "net"
      [] UpperCase(s) = "DMESG" -> "dmesg"
      [] UpperCase(s) = "JOURNAL" -> "journal"
      [] UpperCase(s) = "FAIL" -> "fail"
      [] UpperCase(s) = "LINK" -> "link"
      [] OTHER -> s

\* The log dicts handed to the widget; a message is its sequence of words.
UsbFail == [severity |-> "ERR", subsystem |-> "USB", source |-> "dmesg", message |-> <<"usb", "FAIL">>]
LinkUp == [severity |-> "info", subsystem |-> "net", source |-> "Journal", message |-> <<"Link", "up">>]
Bare == [severity |-> "", subsystem |-> "", source |-> "", message |-> <<>>]
LogDicts == {UsbFail, LinkUp, Bare}

\* The lists of logs a caller passes: up to two logs.
LogLists == {<<>>} \cup {<<l>> : l \in LogDicts} \cup {<<l, m>> : l \in LogDicts, m \in LogDicts}

\* The filter dicts handed to apply_filters. A search pattern is one word, with
\* blanks around it or not, or the invalid regular expression "(".
FilterDicts ==
    { NoFilters, EmptyDict, NoCriteria,
      [NoCriteria EXCEPT !.severities = {"ERR"}],
      [NoCriteria EXCEPT !.severities = {"info"}],
      [NoCriteria EXCEPT !.subsystems = {"usb"}],
      [NoCriteria EXCEPT !.sources = {"JOURNAL"}],
      [NoCriteria EXCEPT !.search_pattern = <<" ", "fail", " ">>],
      [NoCriteria EXCEPT !.search_pattern = <<"(">>],
      [NoCriteria EXCEPT !.severities = {"ERR"}, !.search_pattern = <<"link">>] }

\* bool(filters): None and {} are false.
Truthy(filters) == filters.is = "dict"

\* str.strip() of a pattern.
Strip(pattern) == SelectSeq(pattern, LAMBDA w : w # " ")

\* re.search(pattern, message, re.IGNORECASE) for a one-word pattern.
Search(pattern, message) ==
    \E i \in 1..Len(message) : LowerCase(message[i]) = LowerCase(pattern[1])

\* _matches(log, filters).
Matches(log, filters) ==
    IF ~Truthy(filters) THEN TRUE
    ELSE /\ filters.severities # {} => UpperCase(log.severity) \in filters.severities
         /\ filters.subsystems # {} =>
                UpperCase(log.subsystem) \in {UpperCase(s) : s \in filters.subsystems}
         /\ filters.sources # {} =>
                LowerCase(log.source) \in {LowerCase(s) : s \in filters.sources}
         /\ LET pattern == Strip(filters.search_pattern)
            IN  (pattern # <<>> /\ pattern # <<"(">>) => Search(pattern, log.message)

\* [l for l in ls if self._matches(l, filters)]
Display(ls, filters) == SelectSeq(ls, LAMBDA l : Matches(l, filters))

\* populate_logs(ls).
PopulateLogs(ls) ==
    /\ Len(ls) <= MaxLogs
    /\ logs' = ls
    /\ displayed_logs' = IF Truthy(current_filters) THEN Display(ls, current_filters) ELSE ls
    /\ rows' = Len(displayed_logs')
    /\ UNCHANGED <<current_filters, unshown>>

\* append_logs(ls).
AppendLogs(ls) ==
    /\ Len(logs) + Len(ls) <= MaxLogs
    /\ Len(displayed_logs) + Len(ls) <= MaxLogs
    /\ IF ls = <<>>
       THEN UNCHANGED <<logs, displayed_logs, rows>>
       ELSE LET visible == IF Truthy(current_filters) THEN Display(ls, current_filters) ELSE ls
            IN  /\ logs' = logs \o ls
                /\ displayed_logs' = displayed_logs \o visible
                /\ rows' = rows + Len(visible)
    /\ UNCHANGED <<current_filters, unshown>>

\* apply_filters(filters).
ApplyFilters(filters) ==
    /\ current_filters' = IF Truthy(filters) THEN filters ELSE EmptyDict
    /\ displayed_logs' = Display(logs, current_filters')
    /\ rows' = Len(displayed_logs')
    /\ UNCHANGED <<logs, unshown>>

\* clear_logs(): the table and logs are emptied, displayed_logs is not touched.
ClearLogs ==
    /\ rows' = 0
    /\ logs' = <<>>
    /\ UNCHANGED <<displayed_logs, current_filters, unshown>>

\* ------------------------------------------------------------------ Next
Next ==
    \/ \E avail \in SUBSET Sources : Initialize(avail)
    \/ \E n \in 0..MaxSnapshot : LoadSnapshot(n)
    \/ StartStreaming
    \/ \E kind \in {"stop", "shutdown"} : StopStreaming(kind)
    \/ StopReturn
    \/ \E cb \in Callbacks : Subscribe(cb)
    \/ \E cb \in Callbacks : Unsubscribe(cb)
    \/ Pause
    \/ Resume
    \/ FlushBuffer
    \/ \E t \in Tasks, cont \in BOOLEAN : Pull(t, cont)
    \/ \E t \in Tasks : Wake(t)
    \/ \E t \in Tasks : StreamEnd(t)
    \/ \E t \in Tasks : StreamFail(t)
    \/ \E t \in Tasks : CancelLoop(t)
    \/ \E t \in Tasks : FanoutDone(t)
    \/ \E t \in Tasks : CallReturn(t)
    \/ \E t \in Tasks : CallRaise(t)
    \/ \E t \in Tasks : CallSuspend(t)
    \/ \E t \in Tasks : AwaitReturn(t)
    \/ \E t \in Tasks : AwaitRaise(t)
    \/ \E t \in Tasks : CancelAwait(t)
    \/ \E t \in Tasks : CancelSwallowed(t)
    \/ \E l \in Lines : GiveLine(l)
    \/ \E src \in Sources : ParseCall(src)
    \/ ParseDone
    \/ \E d \in ToolStates, j \in ToolStates, out \in Outputs : ToolsChange(d, j, out)
    \/ InitializeCall
    \/ LoadSnapshotCall
    \/ StartStreamingCall
    \/ \E t \in Tasks : SpawnChild(t)
    \/ \E t \in Tasks : ChildExits(t)
    \/ \E t \in Tasks : Finalize(t)
    \/ GetBufferCall
    \/ GetNewLogs
    \/ \E t \in Tasks, cont \in BOOLEAN : ReaderPull(t, cont)
    \/ SetContext
    \/ \E n \in PluginNames : EnablePlugin(n)
    \/ \E n \in PluginNames : DisablePlugin(n)
    \/ \E c \in Calls, n \in PluginNames, file \in PluginFiles : LoadBegin(c, n, file)
    \/ \E c \in Calls, out \in {"true", "false", "raise"} : LoadResume(c, out)
    \/ \E c \in Calls, n \in PluginNames : UnloadBegin(c, n)
    \/ \E c \in Calls, out \in {"return", "raise"} : UnloadResume(c, out)
    \/ \E c \in Calls : ShutdownBegin(c)
    \/ \E c \in Calls, out \in {"return", "raise"} : ShutdownResume(c, out)
    \/ \E c \in Calls : ProcessBegin(c)
    \/ \E c \in Calls, out \in {"return", "raise", "cancel"} : ProcessResume(c, out)
    \/ \E ls \in LogLists : PopulateLogs(ls)
    \/ \E ls \in LogLists : AppendLogs(ls)
    \/ \E filters \in FilterDicts : ApplyFilters(filters)
    \/ ClearLogs
    \/ \E t \in Tasks : MergeBegin(t)
    \/ \E t \in Tasks : MergeEnd(t)
    \/ \E t \in Tasks, cont \in BOOLEAN : ThreadPull(t, cont)
    \/ \E n \in PluginNames : EnablePluginCall(n)
    \/ \E required \in Versions, available \in Versions : CheckVersion(required, available)

Spec == Init /\ [][Next]_vars

\* The specifications the properties are checked under. Each is the engine
\* restricted to a group of operations, the rest of the state staying as
\* constructed: every behaviour of NextStream, NextFanout and NextLifecycle is a
\* behaviour of Next (from a state Next reaches, for the two that start ready).

\* Buffer, snapshot, pause/resume and stop, with no subscriber registered.
NextStream ==
    \/ \E avail \in SUBSET Sources : Initialize(avail)
    \/ \E n \in 0..MaxSnapshot : LoadSnapshot(n)
    \/ StartStreaming
    \/ \E kind \in {"stop", "shutdown"} : StopStreaming(kind)
    \/ StopReturn
    \/ Pause
    \/ Resume
    \/ FlushBuffer
    \/ \E t \in Tasks, cont \in BOOLEAN : Pull(t, cont)
    \/ \E t \in Tasks : Wake(t)
    \/ \E t \in Tasks : StreamEnd(t)
    \/ \E t \in Tasks : StreamFail(t)
    \/ \E t \in Tasks : CancelLoop(t)
    \/ \E t \in Tasks : FanoutDone(t)

SpecStream == Init /\ [][NextStream]_vars

\* The fan-out to subscribers, with subscribe/unsubscribe interleaved.
NextFanout ==
    \/ StartStreaming
    \/ \E cb \in Callbacks : Subscribe(cb)
    \/ \E cb \in Callbacks : Unsubscribe(cb)
    \/ \E t \in Tasks, cont \in BOOLEAN : Pull(t, cont)
    \/ \E t \in Tasks : StreamEnd(t)
    \/ \E t \in Tasks : StreamFail(t)
    \/ \E t \in Tasks : FanoutDone(t)
    \/ \E t \in Tasks : CallReturn(t)
    \/ \E t \in Tasks : CallRaise(t)
    \/ \E t \in Tasks : CallSuspend(t)
    \/ \E t \in Tasks : AwaitReturn(t)
    \/ \E t \in Tasks : AwaitRaise(t)

SpecFanout == InitReady /\ [][NextFanout]_vars

\* Start, stop and shutdown against a loop at any of its suspension points
\* (one subscriber, events without the continuation flag).
NextLifecycle ==
    \/ LoadSnapshot(1)
    \/ StartStreaming
    \/ \E kind \in {"stop", "shutdown"} : StopStreaming(kind)
    \/ StopReturn
    \/ Subscribe("cbA")
    \/ Pause
    \/ Resume
    \/ \E t \in Tasks : Pull(t, FALSE)
    \/ \E t \in Tasks : Wake(t)
    \/ \E t \in Tasks : StreamEnd(t)
    \/ \E t \in Tasks : StreamFail(t)
    \/ \E t \in Tasks : CancelLoop(t)
    \/ \E t \in Tasks : FanoutDone(t)
    \/ \E t \in Tasks : CallReturn(t)
    \/ \E t \in Tasks : CallSuspend(t)
    \/ \E t \in Tasks : AwaitReturn(t)
    \/ \E t \in Tasks : CancelAwait(t)
    \/ \E t \in Tasks : CancelSwallowed(t)

SpecLifecycle == InitReady /\ [][NextLifecycle]_vars

\* The parser alone, on every line of Lines.
NextParser ==
    \/ \E l \in Lines : GiveLine(l)
    \/ \E src \in Sources : ParseCall(src)
    \/ ParseDone

SpecParser == Init /\ [][NextParser]_vars

\* The adapters under the engine: probes, snapshot and the start of the live
\* stream, with the tools changing under the program.
NextSource ==
    \/ \E d \in ToolStates, j \in ToolStates, out \in Outputs : ToolsChange(d, j, out)
    \/ InitializeCall
    \/ LoadSnapshotCall
    \/ StartStreamingCall
    \/ \E t \in Tasks : SpawnChild(t)
    \/ \E t \in Tasks : ChildExits(t)

SpecSource == Init /\ [][NextSource]_vars

\* The child process of the live stream across start, pause and stop, with no
\* subscriber registered.
NextChild ==
    \/ StartStreaming
    \/ \E kind \in {"stop", "shutdown"} : StopStreaming(kind)
    \/ StopReturn
    \/ Pause
    \/ Resume
    \/ \E t \in Tasks : Pull(t, FALSE)
    \/ \E t \in Tasks : Wake(t)
    \/ \E t \in Tasks : StreamEnd(t)
    \/ \E t \in Tasks : StreamFail(t)
    \/ \E t \in Tasks : CancelLoop(t)
    \/ \E t \in Tasks : FanoutDone(t)
    \/ \E t \in Tasks : Finalize(t)

SpecChild == InitReady /\ [][NextChild]_vars

\* The buffer and the events in it, with a reader taking copies.
NextBuffer ==
    \/ \E n \in 1..MaxSnapshot : LoadSnapshot(n)
    \/ StartStreaming
    \/ \E t \in Tasks, cont \in BOOLEAN : Pull(t, cont)
    \/ \E t \in Tasks : FanoutDone(t)
    \/ FlushBuffer
    \/ GetBufferCall

SpecBuffer == InitReady /\ [][NextBuffer]_vars

\* A KernelLogReader polling the buffer of its running engine.
NextReader ==
    \/ StartStreaming
    \/ \E t \in Tasks, cont \in BOOLEAN : ReaderPull(t, cont)
    \/ \E t \in Tasks : FanoutDone(t)
    \/ FlushBuffer
    \/ GetNewLogs

SpecReader == InitReady /\ [][NextReader]_vars

\* Event dispatch to two loaded and enabled plugins, while plugins are enabled,
\* disabled and unloaded.
NextProcess ==
    \/ \E n \in PluginNames : EnablePlugin(n)
    \/ \E n \in PluginNames : DisablePlugin(n)
    \/ \E c \in Calls, n \in PluginNames : UnloadBegin(c, n)
    \/ \E c \in Calls, out \in {"return", "raise"} : UnloadResume(c, out)
    \/ \E c \in Calls : ProcessBegin(c)
    \/ \E c \in Calls, out \in {"return", "raise", "cancel"} : ProcessResume(c, out)

SpecProcess == InitPlugins /\ [][NextProcess]_vars

\* Loading and unloading from an empty registry, with or without a context.
NextLoad ==
    \/ SetContext
    \/ \E c \in Calls, n \in PluginNames, file \in PluginFiles : LoadBegin(c, n, file)
    \/ \E c \in Calls, out \in {"true", "false", "raise"} : LoadResume(c, out)
    \/ \E c \in Calls, n \in PluginNames : UnloadBegin(c, n)
    \/ \E c \in Calls, out \in {"return", "raise"} : UnloadResume(c, out)

SpecLoad == Init /\ [][NextLoad]_vars

\* Unloading and shutdown of two loaded and enabled plugins.
NextUnload ==
    \/ \E n \in PluginNames : DisablePlugin(n)
    \/ \E c \in Calls, n \in PluginNames : UnloadBegin(c, n)
    \/ \E c \in Calls, out \in {"return", "raise"} : UnloadResume(c, out)
    \/ \E c \in Calls : ShutdownBegin(c)
    \/ \E c \in Calls, out \in {"return", "raise"} : ShutdownResume(c, out)

SpecUnload == InitPlugins /\ [][NextUnload]_vars

\* The operations of the event stream widget.
NextWidget ==
    \/ \E ls \in LogLists : PopulateLogs(ls)
    \/ \E ls \in LogLists : AppendLogs(ls)
    \/ \E filters \in FilterDicts : ApplyFilters(filters)
    \/ ClearLogs

SpecWidget == Init /\ [][NextWidget]_vars

\* The engine behind KernelLogReader: the loop on its thread, the reader's
\* calls on the caller's.
NextThreads ==
    \/ StartStreaming
    \/ \E t \in Tasks, cont \in BOOLEAN : ThreadPull(t, cont)
    \/ \E t \in Tasks : MergeBegin(t)
    \/ \E t \in Tasks : MergeEnd(t)
    \/ \E t \in Tasks : FanoutDone(t)
    \/ GetNewLogs
    \/ FlushBuffer
    \/ \E n \in 1..MaxSnapshot : LoadSnapshot(n)

SpecThreads == InitReady /\ [][NextThreads]_vars

\* Events taking their slots with subscribers registered and the buffer
\* flushed at any time.
NextSlots ==
    \/ StartStreaming
    \/ \E cb \in Callbacks : Subscribe(cb)
    \/ \E t \in Tasks, cont \in BOOLEAN : Pull(t, cont)
    \/ \E t \in Tasks : FanoutDone(t)
    \/ \E t \in Tasks : CallReturn(t)
    \/ \E t \in Tasks : CallRaise(t)
    \/ FlushBuffer

SpecSlots == InitReady /\ [][NextSlots]_vars

\* Plugins loaded, enabled and disabled while events are dispatched.
NextEnable ==
    \/ SetContext
    \/ \E c \in Calls, n \in PluginNames : LoadBegin(c, n, "ok")
    \/ \E c \in Calls, out \in {"true", "false"} : LoadResume(c, out)
    \/ \E n \in PluginNames : EnablePluginCall(n)
    \/ \E n \in PluginNames : DisablePlugin(n)
    \/ \E c \in Calls : ProcessBegin(c)
    \/ \E c \in Calls : ProcessResume(c, "return")

SpecEnable == Init /\ [][NextEnable]_vars

\* The version check on its own.
NextVersion == \E required \in Versions, available \in Versions : CheckVersion(required, available)

SpecVersion == Init /\ [][NextVersion]_vars

\* One consumption loop across pause and resume with subscribers, never stopped.
\* The idle sleep of 0.1 s returns, the fan-out goes on and synchronous
\* callbacks return: each of these steps is taken once it stays possible.
NextResume ==
    \/ StartStreaming
    \/ \E cb \in Callbacks : Subscribe(cb)
    \/ Pause
    \/ Resume
    \/ \E t \in Tasks, cont \in BOOLEAN : Pull(t, cont)
    \/ \E t \in Tasks : Wake(t)
    \/ \E t \in Tasks : FanoutDone(t)
    \/ \E t \in Tasks : CallReturn(t)
    \/ \E t \in Tasks : CallRaise(t)

SpecResume ==
    /\ InitReady
    /\ [][NextResume]_vars
    /\ \A t \in Tasks :
        /\ WF_vars(Wake(t))
        /\ WF_vars(FanoutDone(t))
        /\ WF_vars(CallReturn(t))

\* The registry and the enabled set under every operation that changes them.
NextRegistry ==
    \/ SetContext
    \/ \E c \in Calls, n \in PluginNames : LoadBegin(c, n, "ok")
    \/ \E c \in Calls, out \in {"true", "false", "raise"} : LoadResume(c, out)
    \/ \E c \in Calls, n \in PluginNames : UnloadBegin(c, n)
    \/ \E c \in Calls, out \in {"return", "raise"} : UnloadResume(c, out)
    \/ \E n \in PluginNames : EnablePluginCall(n)
    \/ \E n \in PluginNames : DisablePlugin(n)
    \/ \E c \in Calls : ShutdownBegin(c)
    \/ \E c \in Calls, out \in {"return", "raise"} : ShutdownResume(c, out)

SpecRegistry == Init /\ [][NextRegistry]_vars

TypeOK ==
    /\ buffer_size \in 1..MaxBufferSize
    /\ \A i \in 1..Len(buffer) : buffer[i] \in 1..Len(heap)
    /\ source \in Sources \cup {"None"}
    /\ running \in BOOLEAN /\ paused \in BOOLEAN
    /\ \A i \in 1..Len(event_callbacks) : event_callbacks[i] \in Callbacks
    /\ stream_task \in 0..MaxTasks
    /\ \A t \in Tasks : pc[t] \in {"done", "next", "idle", "merge", "notify", "await"}
    /\ stop_pc \in {"idle", "awaiting"}

\* ------------------------------------------------------------ properties
\* Steps of the consumption loop, told from a pair of states.
AcceptStep(t) == pc[t] \in {"next", "idle"} /\ pc'[t] = "notify"
Accepted(t) == IF pc[t] = "idle" THEN cur[t] ELSE Len(heap) + 1
AppendStep(t) == AcceptStep(t) /\ how'[t] \in {"append", "evict"}
MergeStep(t) == AcceptStep(t) /\ how'[t] = "merge"
InvokeStep(t) == Invokable(t) /\ (pc'[t] = "await" \/ idx'[t] = idx[t] + 1 \/ pc'[t] = "done")
RaiseStep(t) ==
    /\ pc[t] \in {"notify", "await"}
    /\ outcome'[t] = "raised"
    /\ <<pc[t], idx[t]>> # <<pc'[t], idx'[t]>>

\* C1: in every reachable state (after any sequence of load_snapshot(), streamed
\* events taking a new slot or merged, flush_buffer() and stop/shutdown) the
\* buffer holds at most buffer_size events.
C1_BufferBounded == Len(buffer) <= buffer_size

\* C1 witness: the buffer is full right after an append that had to evict.
C1_Witness == \E t \in Tasks : how[t] = "evict" /\ Len(buffer) = buffer_size

\* C2: an event appended to a full buffer leaves buffer_size entries: the oldest
\* is gone, the others keep their order, the new event is last.
C2_EvictOldest ==
    [][\A t \in Tasks :
        (AppendStep(t) /\ Len(buffer) = buffer_size) =>
            /\ Len(buffer') = buffer_size
            /\ buffer' = Tail(buffer) \o <<Accepted(t)>>]_vars

\* C2 witness: a loop has just appended to a full buffer of two entries.
C2_Witness ==
    \E t \in Tasks :
        /\ how[t] = "evict"
        /\ buffer_size = 2
        /\ Len(buffer) = 2
        /\ buffer[2] = obj[t]

\* C3: a continuation event handled while the buffer is non-empty leaves the
\* buffer's entries and length as they are; the last entry's message becomes
\* old message + newline + new message, its raw old raw + newline + new raw;
\* no other event changes. (So a plain event followed by continuation events
\* stays one entry and collects their lines in the order they are handled.)
C3_ContinuationMerge ==
    [][\A t \in Tasks :
        (AcceptStep(t) /\ IsContinuation(heap'[Accepted(t)]) /\ Len(buffer) > 0) =>
            LET e == Accepted(t)
                last == buffer[Len(buffer)]
            IN  /\ buffer' = buffer
                /\ obj'[t] = last
                /\ heap'[last].message = heap[last].message \o <<NL>> \o heap'[e].message
                /\ heap'[last].raw = heap[last].raw \o <<NL>> \o heap'[e].raw
                /\ \A o \in 1..Len(heap) : o # last => heap'[o] = heap[o]]_vars

\* C3 witness: one buffered entry holding three lines, first a plain event's,
\* then those of two continuation events.
C3_Witness ==
    /\ Len(buffer) = 1
    /\ Len(heap) = 3
    /\ heap[buffer[1]].message = << <<"msg", 1>>, NL, <<"msg", 2>>, NL, <<"msg", 3>> >>
    /\ heap[buffer[1]].raw = << <<"raw", 1>>, NL, <<"raw", 2>>, NL, <<"raw", 3>> >>
    /\ \E t \in Tasks : how[t] = "merge" /\ obj[t] = buffer[1]

\* C4 (as claimed): when the fan-out of an event ends, every callback that was
\* registered when the event was accepted, with no subscribe or unsubscribe
\* call for it since, has been invoked for the event.
C4_AllNotified ==
    [][\A t \in Tasks : (pc[t] = "notify" /\ pc'[t] = "next") => pending[t] = {}]_vars

\* C5: when a callback raises (from the call or from the awaited coroutine) the
\* loop is at the next round of the same for loop, over the same list and for
\* the same object, so the callbacks after it are still invoked; running and
\* the buffer are as before.
C5_RaiseIsolated ==
    [][\A t \in Tasks :
        RaiseStep(t) =>
            /\ running' = running
            /\ pc'[t] = "notify"
            /\ idx'[t] = idx[t] + 1
            /\ obj'[t] = obj[t]
            /\ event_callbacks' = event_callbacks
            /\ buffer' = buffer]_vars

\* C5 witness: a callback has raised, the engine is running and the loop is
\* about to invoke the callback registered after it.
C5_Witness ==
    \E t \in Tasks :
        /\ outcome[t] = "raised"
        /\ pc[t] = "notify"
        /\ idx[t] = 2
        /\ Invokable(t)
        /\ running

\* C6 (as claimed): a callback unsubscribed while streaming is running, and not
\* subscribed again, is invoked for no event accepted after the unsubscribe.
C6_NoCallAfterUnsubscribe ==
    [][\A t \in Tasks : InvokeStep(t) => Called(t) \notin banned[t]]_vars

\* C7 (as claimed): once stop_streaming() (or shutdown()) has returned, and until
\* start_streaming() is called, no consumption loop appends or merges an event
\* and none invokes a subscriber callback.
C7_QuietAfterStop ==
    [][quiet # "no" => \A t \in Tasks : ~AcceptStep(t) /\ ~InvokeStep(t)]_vars

\* C8 (as claimed): at most one consumption loop task is alive.
C8_SingleLoop == Cardinality({t \in Tasks : Alive(t)}) <= 1

C10_ShutdownEmpties == quiet = "shutdown" => (~running /\ buffer = <<>>)

\* Steps in which a loop ends, told from a pair of states.
FailStep(t) == pc[t] = "next" /\ pc'[t] = "done" /\ ended' = "error"
CancelStep(t) == cancel[t] /\ Alive(t) /\ pc'[t] = "done"
RestartStep == ~running /\ running'

\* C11: when the live sequence raises, that loop ends, running becomes false
\* and no callback is invoked by the step; a start_streaming() after it makes a
\* new loop task, the one _stream_task names; a cancellation ends the loop
\* with running left as stop_streaming() set it, and not as an error.
C11_StreamErrorStops ==
    [][\A t \in Tasks :
        /\ FailStep(t) =>
              /\ ~running'
              /\ event_callbacks' = event_callbacks
              /\ buffer' = buffer
              /\ \A u \in Tasks : ~InvokeStep(u)
        /\ (ended = "error" /\ RestartStep) =>
              \E u \in Tasks : ~Alive(u) /\ pc'[u] = "next" /\ stream_task' = u
        /\ CancelStep(t) => (ended' = "cancelled" /\ running' = running)]_vars

\* C11 witness: with a subscriber registered and an event buffered, the loop
\* has ended on a stream error and no loop is left.
C11_Witness ==
    /\ ended = "error"
    /\ ~running
    /\ event_callbacks # <<>>
    /\ Len(buffer) > 0
    /\ \A t \in Tasks : ~Alive(t)

\* C18 (as claimed): every event the parser returns has one of the eight
\* severities, on the timestamped path and on the <N> prefix path, for every
\* priority digit 0..9.
C18_SeverityInEnum ==
    (parsed.op = "parse" /\ parsed.value.result = "event") =>
        parsed.value.severity \in Severities

\* The ladder of the specification, top first.
Ladder == <<"EMERG", "ALERT", "ERR", "WARN", "NOTICE", "DEBUG">>
LadderKeywords ==
    <<EmergKeywords, AlertKeywords, ErrKeywords, WarnKeywords, NoticeKeywords, DebugKeywords>>
LadderHits(msg) == {i \in 1..Len(Ladder) : AnyKeyword(LadderKeywords[i], msg)}
FirstOnLadder(msg) ==
    IF LadderHits(msg) = {} THEN "INFO"
    ELSE Ladder[CHOOSE i \in LadderHits(msg) : \A j \in LadderHits(msg) : i <= j]

\* C19: an event of a timestamped line whose severity no priority digit 0..7
\* set has the first level of the ladder with a keyword occurring in its
\* message (in any letter case), INFO when none occurs.
C19_LadderFirstMatch ==
    (/\ parsed.op = "parse"
     /\ parsed.value.result = "event"
     /\ line.form = "timestamped"
     /\ line.digit \notin DOMAIN SEVERITY_LEVELS) =>
        parsed.value.severity = FirstOnLadder(parsed.value.message)

\* C19 witness: a message with an EMERG keyword after a WARN keyword, no
\* priority digit, parsed as EMERG.
C19_Witness ==
    /\ parsed.op = "parse"
    /\ line.form = "timestamped"
    /\ line.digit = -1
    /\ line.words = <<"warning", "PANIC">>
    /\ parsed.value.result = "event"
    /\ parsed.value.severity = "EMERG"

C12_SourceFailureReachesCaller ==
    /\ (returned.op = "load_snapshot" /\ returned.adapter.result = "error") =>
           (returned.result = "error" /\ returned.error = returned.adapter.error)
    /\ \A t \in Tasks :
           (live[t].op = "stream_live" /\ live[t].outcome = "raised") => live[t].start = "error"

\* C13 (as claimed): get_snapshot() returns at most buffer_size events, those of
\* the buffer_size most recent lines of the log, in order.
C13_SnapshotCapped ==
    (snap.op = "get_snapshot" /\ snap.result = "events") =>
        /\ Len(snap.events) <= snap.buffer_size
        /\ snap.events = ParseAll(LastLines(snap.output, snap.buffer_size), snap.source)

\* C14 (as claimed): with the binary missing get_snapshot() and stream_live()
\* fail with SourceUnavailableError, and so does get_snapshot() on a timeout.
C14_UnavailableOnMissingOrTimeout ==
    /\ (snap.op = "get_snapshot" /\ snap.tool \in {"missing", "timeout"}) =>
           (snap.result = "error" /\ snap.error = "SourceUnavailableError")
    /\ \A t \in Tasks :
           (live[t].op = "stream_live" /\ live[t].tool = "missing") =>
               (live[t].outcome = "raised" /\ live[t].error = "SourceUnavailableError")

\* C15 (as claimed): a nonzero exit status makes the adapter operation fail with
\* PermissionDeniedError: get_snapshot() returns no events, and stream_live()
\* does not end as a normal end of stream.
C15_NonzeroIsPermissionDenied ==
    /\ (snap.op = "get_snapshot" /\ snap.tool = "nonzero") =>
           (snap.result = "error" /\ snap.error = "PermissionDeniedError" /\ snap.events = <<>>)
    /\ \A t \in Tasks :
           (live[t].op = "stream_live" /\ live[t].status = "nonzero") =>
               (live[t].outcome = "raised" /\ live[t].error = "PermissionDeniedError")

\* C16 (as claimed): once stop_streaming() (or shutdown()) has returned, no
\* child process of a live stream is still running with no termination
\* requested.
C16_ChildTerminatedAfterStop == quiet # "no" => \A t \in Tasks : child[t] # "running"

\* C17: initialize() selects dmesg whenever its probe succeeds, journalctl when
\* only that probe succeeds, and leaves the source alone and returns False when
\* neither does; it returns True exactly when it selected an adapter.
C17_InitializeSelects ==
    returned.op = "initialize" =>
        /\ "dmesg" \in returned.probes => (source = "dmesg" /\ returned.value)
        /\ returned.probes = {"journal"} => (source = "journal" /\ returned.value)
        /\ returned.probes = {} => (source = returned.before /\ ~returned.value)
        /\ returned.value <=> returned.probes # {}

\* C17 witness: only the journalctl probe succeeded, on an engine that had
\* selected dmesg before, and journalctl is selected.
C17_Witness ==
    /\ returned.op = "initialize"
    /\ returned.probes = {"journal"}
    /\ returned.before = "dmesg"
    /\ source = "journal"
    /\ returned.value

\* C21: the event_id an event got at creation is never changed by a step, and
\* no two events in the buffer carry the same event_id.
C21_EventIdStable ==
    [][/\ \A i \in 1..Len(heap) : heap'[i].event_id = heap[i].event_id
       /\ \A i, j \in 1..Len(buffer') :
              i # j => heap'[buffer'[i]].event_id # heap'[buffer'[j]].event_id]_vars

\* C21 witness: a full buffer after an eviction, its last event with a
\* continuation merged into it and the event_id it was created with, and
\* get_buffer() called.
C21_Witness ==
    /\ Len(buffer) = buffer_size
    /\ buffer[1] > 1
    /\ Len(heap[buffer[Len(buffer)]].message) > 1
    /\ heap[buffer[Len(buffer)]].event_id = <<"uuid", buffer[Len(buffer)]>>
    /\ returned.op = "get_buffer"

\* C22 (as claimed): the events in the list get_buffer() returned still hold
\* what they held when it returned.
C22_SnapshotUnchanged ==
    returned.op = "get_buffer" =>
        \A i \in 1..Len(returned.value) : heap[returned.value[i]] = returned.seen[i]

\* C29 (as claimed): get_new_logs() returns exactly the events that entered
\* the buffer since the previous get_new_logs() call.
C29_NewLogsExact ==
    returned.op = "get_new_logs" => returned.value = returned.entered

\* C23: a process_event call that ended after some plugin's on_event raised a
\* non-cancellation exception, and was not cancelled, returned normally and
\* invoked on_event of every plugin that stayed enabled and loaded; a call
\* cancelled inside a plugin ended with CancelledError.
C23_OthersStillInvoked ==
    \A c \in Calls :
        (mcalls[c].op = "process" /\ mcalls[c].pc = "done" /\ mcalls[c].raised # {}
            /\ mcalls[c].result # "CancelledError")
        => (mcalls[c].result = "None" /\ mcalls[c].stable \subseteq mcalls[c].invoked)

\* C24: no call of process_event, unload_plugin or shutdown ends with an
\* exception other than a cancellation.
C24_FailuresContained ==
    \A c \in Calls :
        (mcalls[c].op \in {"process", "unload", "shutdown"} /\ mcalls[c].pc = "done")
        => mcalls[c].result \in {"none", "None", "True", "False", "CancelledError"}

\* C25: a load_plugin call that met a missing file, a file without plugin
\* class, a version mismatch, or an on_load that returned false or raised,
\* ended with PluginLoadError and did not register its instance; and every
\* registered instance is one whose on_load returned true.
C25_LoadFailureRaises ==
    /\ \A c \in Calls :
        (mcalls[c].op = "load" /\ mcalls[c].pc = "done"
            /\ mcalls[c].case \in {"missing", "noclass", "version", "hook_false", "hook_raise"})
        => (mcalls[c].result = "PluginLoadError"
            /\ (mcalls[c].inst = 0 \/ plugins[mcalls[c].name] # mcalls[c].inst))
    /\ \A n \in PluginNames : plugins[n] # 0 => insts[plugins[n]].on_load = "true"

\* C26: for each name at most one instance has had on_load invoked (the hook
\* running or returned true) without a later on_unload, and a load_plugin of a
\* registered name created no instance and invoked no hook.
C26_LoadedAtMostOnce ==
    /\ \A n \in PluginNames :
        Cardinality({i \in 1..Len(insts) :
            insts[i].name = n /\ insts[i].on_load \in {"invoked", "true"}
                /\ insts[i].unloads = 0}) <= 1
    /\ \A c \in Calls :
        (mcalls[c].op = "load" /\ mcalls[c].case = "registered")
        => (mcalls[c].inst = 0 /\ mcalls[c].result = "True")

\* C27: an unload_plugin call of a loaded plugin that has ended left the name
\* out of the registry and of the enabled set with on_unload invoked exactly
\* once on the instance, and an unload_plugin of a name not loaded returned
\* False without invoking a hook.
C27_UnloadedOnce ==
    \A c \in Calls :
        (mcalls[c].op = "unload" /\ mcalls[c].pc = "done")
        => IF mcalls[c].case = "loaded"
           THEN /\ insts[mcalls[c].inst].unloads = 1
                /\ plugins[mcalls[c].name] = 0
                /\ mcalls[c].name \notin enabled_plugins
           ELSE mcalls[c].result = "False" /\ mcalls[c].inst = 0

\* C28: once shutdown has returned, the registry and the enabled set are empty
\* and on_unload was invoked on every instance registered when it began.
C28_ShutdownUnloadsAll ==
    \A c \in Calls :
        (mcalls[c].op = "shutdown" /\ mcalls[c].pc = "done")
        => /\ \A n \in PluginNames : plugins[n] = 0
           /\ enabled_plugins = {}
           /\ \A i \in mcalls[c].began : insts[i].unloads >= 1

\* C30: displayed_logs is the in-order sublist of logs that match the current
\* filters, and the table has one row per displayed log.
C30_DisplayedIsFiltered ==
    /\ displayed_logs = Display(logs, current_filters)
    /\ rows = Len(displayed_logs)

\* C31: while the loop's thread is inside a merge, no step reads the buffer
\* (a get_new_logs() call taking get_buffer()) or writes it (flush_buffer()'s
\* clear, load_snapshot()'s extend).
C31_NoOverlap ==
    [][(\E t \in Tasks : pc[t] = "merge") => (buffer' = buffer /\ returned' = returned)]_vars

\* C32: an event handled while the buffer is empty, continuation flag or not,
\* and an event without the flag at any time, is appended as a slot of its
\* own and is the object the fan-out delivers; no event is changed.
C32_NewSlot ==
    [][\A t \in Tasks :
        (AcceptStep(t) /\ (Len(buffer) = 0 \/ ~IsContinuation(heap'[Accepted(t)]))) =>
            LET e == Accepted(t)
            IN  /\ buffer' = DequeAppend(buffer, e, buffer_size)
                /\ obj'[t] = e
                /\ heap'[e] = NewEvent(e, IsContinuation(heap'[e]))
                /\ \A o \in 1..Len(heap) : heap'[o] = heap[o]]_vars

\* C32 witness: a continuation event that arrived after a flush is the only
\* entry of the buffer, unchanged, and a subscriber has been called with it.
C32_Witness ==
    \E t \in Tasks :
        /\ pc[t] = "notify"
        /\ idx[t] > 1
        /\ how[t] = "append"
        /\ obj[t] > 1
        /\ buffer = <<obj[t]>>
        /\ heap[obj[t]] = NewEvent(obj[t], TRUE)

\* C33: a load_snapshot() or start_streaming() call made while no source is
\* selected ends with an error and leaves the buffer, running and the tasks
\* as they were; a load_snapshot() call that got the adapter's events extends
\* the buffer by exactly those events, in order, and they are what it returns.
C33_RequiresInitialize ==
    [][(returned' # returned /\ returned'.op \in {"load_snapshot", "start_streaming"}) =>
        IF source = "None"
        THEN /\ returned'.result = "error"
             /\ returned'.error = "RuntimeError"
             /\ buffer' = buffer
             /\ ~running'
             /\ pc' = pc
             /\ stream_task' = stream_task
             /\ heap' = heap
        ELSE (returned'.op = "load_snapshot" /\ returned'.result = "events") =>
                LET n == Len(returned'.adapter.events)
                IN  /\ Len(heap') = Len(heap) + n
                    /\ buffer' = DequeExtend(buffer, [i \in 1..n |-> Len(heap) + i], buffer_size)
                    /\ returned'.adapter = GetSnapshot(source, env, buffer_size)]_vars

\* C33 witness: a load_snapshot() after initialize() returned two events and
\* both are in the buffer, in order.
C33_Witness ==
    /\ source # "None"
    /\ returned.op = "load_snapshot"
    /\ returned.result = "events"
    /\ Len(returned.adapter.events) = 2
    /\ buffer = <<1, 2>>

\* A step in which process_event invokes a plugin's on_event.
OnEventStep(c) ==
    /\ mcalls'[c].op = "process"
    /\ mcalls'[c].pc = "hook"
    /\ mcalls'[c].invoked # mcalls[c].invoked

\* C34: on_event is invoked only on a plugin that is registered and in the
\* enabled set; a step of load_plugin leaves the enabled set alone; a name
\* enters the enabled set only by an enable_plugin of a registered name, which
\* returns True, and enable_plugin of a name not registered returns False and
\* changes nothing; disable_plugin removes no registry entry.
C34_OnlyLoadedAndEnabled ==
    [][/\ \A c \in Calls :
            OnEventStep(c) =>
                /\ mcalls'[c].name \in enabled_plugins
                /\ plugins[mcalls'[c].name] = mcalls'[c].inst
                /\ mcalls'[c].inst # 0
       /\ (\E c \in Calls : mcalls'[c].op = "load" /\ mcalls'[c] # mcalls[c]) =>
                enabled_plugins' = enabled_plugins
       /\ \A n \in PluginNames :
            (n \in enabled_plugins' \ enabled_plugins) =>
                (plugins[n] # 0 /\ returned' = [op |-> "enable_plugin", name |-> n, value |-> TRUE])
       /\ (returned' # returned /\ returned'.op = "enable_plugin" /\ plugins[returned'.name] = 0) =>
                (~returned'.value /\ enabled_plugins' = enabled_plugins)
       /\ (enabled_plugins' # enabled_plugins) => plugins' = plugins]_vars

\* C34 witness: an event was dispatched to pa alone while pb was registered
\* but not enabled, and an enable_plugin of a name not registered returned False.
C34_Witness ==
    /\ \E c \in Calls :
        /\ mcalls[c].op = "process"
        /\ mcalls[c].pc = "done"
        /\ mcalls[c].result = "None"
        /\ mcalls[c].invoked = {"pa"}
    /\ plugins["pa"] # 0
    /\ plugins["pb"] = 0
    /\ enabled_plugins = {"pa"}
    /\ returned = [op |-> "enable_plugin", name |-> "pb", value |-> FALSE]

\* The order of versions read as lists of integers, component by component:
\* the first component that differs decides, a missing component counting as 0.
VersionAt(a, i) == IF i <= Len(a) THEN a[i] ELSE 0

VersionGE(a, b) ==
    LET m == IF Len(a) < Len(b) THEN Len(b) ELSE Len(a)
        differ == {i \in 1..m : VersionAt(a, i) # VersionAt(b, i)}
    IN  IF differ = {} THEN TRUE
        ELSE LET i == CHOOSE k \in differ : \A l \in differ : k <= l
             IN  VersionAt(a, i) > VersionAt(b, i)

\* C35: the version check accepts exactly when both versions are made of
\* integers and the engine version is greater than or equal to the required
\* one, component by component, whatever the number of components.
C35_VersionOrder ==
    returned.op = "check_version" =>
        (returned.value <=>
            /\ \A i \in 1..Len(returned.required) : IsInt(returned.required[i])
            /\ \A i \in 1..Len(returned.available) : IsInt(returned.available[i])
            /\ VersionGE(Parts(returned.available), Parts(returned.required)))

\* C36: while the engine is paused and running, an event the loop has taken
\* from the live sequence is in the buffer (no loop holds one back).
C36_FillsWhilePaused ==
    \A t \in Tasks : (paused /\ running /\ pc[t] = "idle") => cur[t] \in Range(buffer)

\* C37: every name in the enabled set has an entry in the registry.
C37_EnabledAreLoaded == \A n \in enabled_plugins : plugins[n] # 0

\* C37 witness: pa was enabled (the latest enable_plugin call, which returned
\* True) and has since been unloaded, while pb is still registered and enabled.
C37_Witness ==
    /\ returned = [op |-> "enable_plugin", name |-> "pa", value |-> TRUE]
    /\ plugins["pa"] = 0
    /\ enabled_plugins = {"pb"}
    /\ \E c \in Calls :
        /\ mcalls[c].op = "unload"
        /\ mcalls[c].pc = "done"
        /\ mcalls[c].name = "pa"
        /\ mcalls[c].result = "True"

\* C38: whenever running is true, the task of the consumption loop is alive.
C38_RunningHasLoop == running => (stream_task # 0 /\ Alive(stream_task))

\* The fields of an event a continuation merge leaves alone.
KeptFields ==
    {"timestamp_monotonic", "timestamp_realtime", "severity", "subsystem", "source",
     "event_id", "cpu", "pid"}

\* C39: a continuation merge changes only message, raw and annotations of the
\* buffer's last entry; its other fields, the buffer's membership and every
\* other event are unchanged, and its annotations become the union of its
\* earlier annotations and the incoming event's.
C39_MergeFrame ==
    [][\A t \in Tasks : MergeStep(t) =>
          LET last == buffer[Len(buffer)]
              e == Accepted(t)
          IN  /\ buffer' = buffer
              /\ \A k \in 1..Len(heap) : k # last => heap'[k] = heap[k]
              /\ \A f \in KeptFields : heap'[last][f] = heap[last][f]
              /\ heap'[last].annotations = heap[last].annotations \cup heap'[e].annotations
              /\ heap'[last].message # heap[last].message
              /\ heap'[last].raw # heap[last].raw]_vars

\* C39 witness: a loop stands after a merge into the last of two buffered
\* entries, whose annotations now hold the incoming event's flag.
C39_Witness ==
    \E t \in Tasks :
        /\ pc[t] = "notify"
        /\ how[t] = "merge"
        /\ Len(buffer) = 2
        /\ obj[t] = buffer[2]
        /\ "continuation" \in heap[obj[t]].annotations
        /\ Len(heap[obj[t]].message) = 3

\* The loop of task t holds event k in its pause-idle wait.
Held(t, k) == pc[t] = "idle" /\ cur[t] = k

\* Event k is in the buffer, as an entry or merged into one.
Buffered(k) == \E i \in 1..Len(buffer) : <<"msg", k>> \in Range(heap[buffer[i]].message)

\* The fan-out of the entry that holds event k has gone through the whole
\* callback list, every subscriber of the time it was accepted invoked.
Handled(t, k) ==
    /\ pc[t] = "notify"
    /\ Exhausted(t)
    /\ pending[t] = {}
    /\ <<"msg", k>> \in Range(heap[obj[t]].message)
    /\ Buffered(k)

\* C40: an event held across a pause is not lost. While it is held no event
\* produced after it is in the buffer or being fanned out; and once the
\* engine stays resumed (streaming is never stopped here), the held event is
\* eventually appended or merged and its fan-out completed.
C40_HeldNotLost ==
    /\ [](\A t \in Tasks, k \in 1..MaxEvents :
            Held(t, k) => \A j \in (k + 1)..Len(heap) :
                              ~Buffered(j) /\ \A u \in Tasks : obj[u] # j)
    /\ (<>[](~paused)) =>
           \A t \in Tasks, k \in 1..MaxEvents : Held(t, k) ~> Handled(t, k)

\* C40 witness: resume() has been called while the loop still holds the event it
\* pulled during the pause, with a subscriber registered.
C40_Witness ==
    \E t \in Tasks :
        /\ pc[t] = "idle"
        /\ cur[t] # 0
        /\ running
        /\ ~paused
        /\ Len(event_callbacks) > 0

====
